---- MODULE Spec2Model ----
(***************************************************************************)
(* Card Creatr: the option resolver (lib/options.js), its sources, its     *)
(* blocking and concurrent resolution passes and its onceLoaded registry.  *)
(*                                                                         *)
(* Conventions of the model                                                *)
(*   - a raw mapping is the sequence of its entries in key order           *)
(*     (Object.keys order); a key is the sequence of its tokens;           *)
(*   - a tree path "/a/b" is the sequence <<"a", "b">>;                    *)
(*   - the merged tree (_data) is a function from the paths of its nodes   *)
(*     to the nodes: a nested object is a node of kind "obj";              *)
(*   - a file path is <<dirname, name>> under a directory context and      *)
(*     <<name>> under a reader function; the bytes of a file are named by  *)
(*     the path they were read from.                                       *)
(***************************************************************************)
EXTENDS Integers, Sequences, FiniteSets, TLC

\* ------------------------------------------------------------------------
\* Raw values of a source mapping
\* ------------------------------------------------------------------------
Str(s) == [t |-> "str", s |-> s, o |-> <<>>]
Obj(entries) == [t |-> "obj", s |-> "", o |-> entries]
Arr(s) == [t |-> "arr", s |-> s, o |-> <<>>]
ArrOf(elements) == [t |-> "arr", s |-> "", o |-> elements]
Null == [t |-> "null", s |-> "", o |-> <<>>]
Undefined == [t |-> "undefined", s |-> "", o |-> <<>>]
E(key, val) == [key |-> key, val |-> val]

\* ------------------------------------------------------------------------
\* Errors
\* ------------------------------------------------------------------------
NoErr == [type |-> "none", at |-> <<>>]
Err(type, at) == [type |-> type, at |-> at]

\* ------------------------------------------------------------------------
\* Field keys (parseFieldKey)
\* ------------------------------------------------------------------------
Punct == {" ", "(", ")", ",", "[]"}
IsWord(tok) == tok \notin Punct

\* /\(([\w,]+)\)/ matches at i: "(" then one or more word or "," tokens then ")"
GroupEnds(key, i) ==
    {j \in (i + 2)..Len(key) :
        /\ key[j] = ")"
        /\ \A k \in (i + 1)..(j - 1) : IsWord(key[k]) \/ key[k] = ","}
First0(ends) == IF ends = {} THEN 0 ELSE CHOOSE j \in ends : TRUE
GroupEnd(key, i) == First0(GroupEnds(key, i))

\* propertiesResult[1].split(","): a word token is a segment; a "," at either
\* end of the group or next to another "," leaves an empty segment
SplitGroup(key, i, j) ==
    {key[k] : k \in {m \in (i + 1)..(j - 1) : IsWord(key[m])}}
      \cup (IF \E k \in (i + 1)..(j - 1) :
                  key[k] = "," /\ (k = i + 1 \/ k = j - 1 \/ key[k + 1] = ",")
            THEN {""} ELSE {})

Leftmost(starts) == CHOOSE a \in starts : \A b \in starts : a <= b

PropertiesAt(key, starts) ==
    IF starts = {} THEN {}
    ELSE SplitGroup(key, Leftmost(starts), GroupEnd(key, Leftmost(starts)))

PropertiesOf(key) ==
    PropertiesAt(key, {i \in 1..Len(key) : key[i] = "(" /\ GroupEnd(key, i) # 0})

parseFieldKey(key) ==
    IF key = <<>> \/ ~IsWord(key[1])
    THEN [err |-> Err("CannotParseKey", <<>>), name |-> "", properties |-> {},
          array |-> FALSE]
    ELSE [err |-> NoErr, name |-> key[1], properties |-> PropertiesOf(key),
          array |-> key[Len(key)] = "[]"]

\* ------------------------------------------------------------------------
\* convertKeysToFields, getAllFieldNames, isConsumable
\* ------------------------------------------------------------------------
PrivateWords == {"_dirname", "_note"}
IsPrivateKey(key) == key # <<>> /\ key[1] \in PrivateWords

NoDirname == "undefined"

\* A source object is known by its reference: the source it belongs to and
\* the field names that lead to it.
Ref(src, at) == [src |-> src, at |-> at]

RECURSIVE convertEntries(_, _, _, _)

\* dest[field.name] = Object.assign({}, field, { value: source[key] }), then
\* the keys that follow
convertEntry(ref, entries, i, dest, field) ==
    IF field.err # NoErr
    THEN [err |-> field.err, fields |-> dest]
    ELSE IF \E k \in 1..Len(dest) : dest[k].name = field.name
    THEN [err |-> Err("Duplicate", <<field.name>>), fields |-> dest]
    ELSE convertEntries(ref, entries, i + 1,
            Append(dest, [name |-> field.name,
                          properties |-> field.properties,
                          array |-> field.array,
                          value |-> entries[i].val,
                          ref |-> Ref(ref.src, Append(ref.at, field.name))]))

convertEntries(ref, entries, i, dest) ==
    IF i > Len(entries) THEN [err |-> NoErr, fields |-> dest]
    ELSE IF IsPrivateKey(entries[i].key) \/ entries[i].val.t = "undefined"
    THEN convertEntries(ref, entries, i + 1, dest)
    ELSE convertEntry(ref, entries, i, dest, parseFieldKey(entries[i].key))

\* source: [ref, entries]; heap: the _dirname property of the source objects
Converted(r, dirname) == [err |-> r.err, fields |-> r.fields, dirname |-> dirname]

convertKeysToFields(source, heap) ==
    Converted(convertEntries(source.ref, source.entries, 1, <<>>),
              IF source.ref \in DOMAIN heap THEN heap[source.ref] ELSE NoDirname)

Defines(conv, fieldName) == \E k \in 1..Len(conv.fields) : conv.fields[k].name = fieldName
FieldOf(conv, fieldName) ==
    conv.fields[CHOOSE k \in 1..Len(conv.fields) : conv.fields[k].name = fieldName]

RECURSIVE Flatten(_)
Flatten(seqs) == IF seqs = <<>> THEN <<>> ELSE Head(seqs) \o Flatten(Tail(seqs))

RECURSIVE Unique(_, _)
Unique(names, seen) ==
    IF names = <<>> THEN <<>>
    ELSE IF Head(names) \in seen THEN Unique(Tail(names), seen)
    ELSE <<Head(names)>> \o Unique(Tail(names), seen \cup {Head(names)})

\* a variant that keeps a name once for every source that has it
getAllFieldNamesRepeated(sources) ==
    Flatten([i \in 1..Len(sources) |->
               [k \in 1..Len(sources[i].fields) |-> sources[i].fields[k].name]])

getAllFieldNames(sources) ==
    Unique(Flatten([i \in 1..Len(sources) |->
                      [k \in 1..Len(sources[i].fields) |-> sources[i].fields[k].name]]), {})

isConsumable(field) == field.value.t = "obj"

\* sources.filter(source => typeof source[fieldName] !== "undefined")
RECURSIVE FilterDefining(_, _)
FilterDefining(sources, fieldName) ==
    IF sources = <<>> THEN <<>>
    ELSE IF Defines(Head(sources), fieldName)
         THEN <<Head(sources)>> \o FilterDefining(Tail(sources), fieldName)
         ELSE FilterDefining(Tail(sources), fieldName)

\* a variant that lets a mix of mappings and values pass
InconsistentNever(_sources, fieldName) == FALSE
Inconsistent(_sources, fieldName) ==
    \E i \in 1..Len(_sources) :
        isConsumable(FieldOf(_sources[i], fieldName))
            # isConsumable(FieldOf(_sources[1], fieldName))

\* a variant that writes nothing
SetHeapNone(heap, ref, dirname) == heap
\* source[fieldName].value._dirname = source._dirname, for every source
SetHeap(heap, ref, dirname) ==
    [r \in DOMAIN heap \cup {ref} |-> IF r = ref THEN dirname ELSE heap[r]]

RECURSIVE CopyDirnames(_, _, _)
CopyDirnames(heap, _sources, fieldName) ==
    IF _sources = <<>> THEN heap
    ELSE CopyDirnames(SetHeap(heap, FieldOf(Head(_sources), fieldName).ref,
                              Head(_sources).dirname),
                      Tail(_sources), fieldName)

NestedSources(_sources, fieldName) ==
    [i \in 1..Len(_sources) |->
        [ref |-> FieldOf(_sources[i], fieldName).ref,
         entries |-> FieldOf(_sources[i], fieldName).value.o]]

\* ------------------------------------------------------------------------
\* Files, images and fonts (fs, the reader function, image-size, word-wrappr)
\* ------------------------------------------------------------------------
ReaderFn == "readFile"
IsFunction(dirname) == dirname = ReaderFn

DEJAVU_BOLD == "/DejaVuSerifCondensed-Bold.ttf"
DEJAVU == "/DejaVuSerifCondensed.ttf"
PLACEHOLDER_PNG == <<"placeholder.png">>

PngNames == {"i.png", "placeholder.png"}
TtfNames == {"f.ttf", DEJAVU_BOLD, DEJAVU}

\* path.join(dirname, newValue), or newValue itself for a reader function
JoinPath(dirname, newValue) ==
    IF IsFunction(dirname) THEN <<newValue>> ELSE <<dirname, newValue>>

mimeLookup(path) ==
    LET name == path[Len(path)]
    IN IF name \in PngNames THEN "image/png"
       ELSE IF name \in TtfNames THEN "font/ttf"
       ELSE "application/octet-stream"

\* What a read of the path yields: bytes, an error, or null without an error;
\* sync: the reader function calls back before it returns; null: the buffer
\* handed to the callback is null (not undefined).
ExistingFiles ==
    {<<"/cfg", "t.pug">>, <<"/cfg", "i.png">>, <<"/cfg", "f.ttf">>,
     <<"", DEJAVU_BOLD>>, <<"", DEJAVU>>,
     <<"t.pug">>, <<"i.png">>, <<"f.ttf">>,
     <<"/cfg", "cards.csv">>, <<"/cfg", "plain.csv">>,
     <<"template.pug">>, <<"cards.csv">>}

ReadOutcome(path) ==
    IF path \in ExistingFiles
    THEN [res |-> "ok", buffer |-> path, sync |-> FALSE, null |-> FALSE]
    ELSE IF path = <<"nul">>
    THEN [res |-> "null", buffer |-> <<>>, sync |-> FALSE, null |-> TRUE]
    ELSE IF path = <<"">>
    THEN [res |-> "err", buffer |-> <<>>, sync |-> TRUE, null |-> TRUE]
    ELSE [res |-> "err", buffer |-> <<>>, sync |-> FALSE, null |-> FALSE]

CanImageSize(buffer) == buffer # <<>> /\ buffer[Len(buffer)] \in PngNames
imageSize(buffer) == <<"dims">> \o buffer
CanLoadFont(buffer) == buffer # <<>> /\ buffer[Len(buffer)] \in TtfNames
WordWrappr(buffer) == <<"wrappr">> \o buffer

\* ------------------------------------------------------------------------
\* Resolved leaves (processFieldSync, processField)
\* ------------------------------------------------------------------------
\* A node of the merged tree.  A key the code leaves unset holds "", <<>>
\* or Undefined here.
Blank ==
    [kind |-> "asset", value |-> Undefined, num |-> "", dirname |-> NoDirname,
     path |-> <<>>, mimeType |-> "", buffer |-> <<>>, dataUri |-> <<>>,
     dims |-> <<>>, wrappr |-> <<>>]
ObjNode == [Blank EXCEPT !.kind = "obj"]

\* parseInt / parseFloat on the raw values of the model, as String(result)
parseInt(newValue) ==
    IF newValue.t # "str" THEN "NaN"
    ELSE CASE newValue.s = "7" -> "7"
           [] newValue.s = "0" -> "0"
           [] newValue.s = "-5" -> "-5"
           [] newValue.s = "2.5" -> "2"
           [] OTHER -> "NaN"
parseFloat(newValue) ==
    IF newValue.t # "str" THEN "NaN"
    ELSE CASE newValue.s = "7" -> "7"
           [] newValue.s = "0" -> "0"
           [] newValue.s = "-5" -> "-5"
           [] newValue.s = "2.5" -> "2.5"
           [] OTHER -> "NaN"

shouldLoadBuffer(field) == field.properties \cap {"path", "img", "font"} # {}

\* result.path is null: a reader function given a null value
NullPath(field, dirname) == IsFunction(dirname) /\ field.value.t = "null"
ResultPath(field, dirname) ==
    IF NullPath(field, dirname) THEN <<>> ELSE JoinPath(dirname, field.value.s)
ResultMime(field, dirname) ==
    IF NullPath(field, dirname) THEN mimeLookup(<<"">>)
    ELSE mimeLookup(ResultPath(field, dirname))
ReadOf(field, dirname) ==
    IF NullPath(field, dirname)
    THEN [res |-> "err", buffer |-> <<>>, sync |-> TRUE, null |-> TRUE]
    ELSE ReadOutcome(ResultPath(field, dirname))

Fail(err) == [err |-> err, result |-> Blank]
Done(result) == [err |-> NoErr, result |-> result]

\* a variant that measures every buffer
DecodedAnyImage(field, r, buffer) ==
    [r EXCEPT !.dims = imageSize(buffer),
              !.wrappr = IF "font" \in field.properties THEN WordWrappr(buffer) ELSE <<>>]

\* The steps once the buffer is settled: result.buffer and result.dataUri,
\* then the image dimensions, then the font; the first that throws ends them.
Decoded(field, r, buffer) ==
    [r EXCEPT !.dims = IF "img" \in field.properties THEN imageSize(buffer) ELSE <<>>,
              !.wrappr = IF "font" \in field.properties THEN WordWrappr(buffer) ELSE <<>>]

Decode(field, r, buffer) ==
    IF "img" \in field.properties /\ ~CanImageSize(buffer)
    THEN Fail(Err("ImageSize", r.path))
    ELSE IF "font" \in field.properties /\ ~CanLoadFont(buffer)
    THEN Fail(Err("FontLoad", r.path))
    ELSE IF shouldLoadBuffer(field)
    THEN Done(Decoded(field, [r EXCEPT !.buffer = buffer,
                                       !.dataUri = <<r.mimeType>> \o buffer], buffer))
    ELSE Done(Decoded(field, r, buffer))

\* result.dirname, result.path, result.mimeType as bufferInit sets them
Started(field, dirname) ==
    [Blank EXCEPT !.dirname = dirname,
                  !.path = ResultPath(field, dirname),
                  !.mimeType = ResultMime(field, dirname)]

\* a variant that lets the read error stand
PlaceholderNone(field, r) == Fail(Err("ReadError", r.path))
Placeholder(field, r) ==
    Decode(field, [r EXCEPT !.mimeType = mimeLookup(PLACEHOLDER_PNG)], PLACEHOLDER_PNG)

processFieldSyncRead(field, r, read) ==
    IF read.res = "err" /\ "img" \notin field.properties
    THEN Fail(Err("ReadError", r.path))
    ELSE IF read.res = "ok" THEN Decode(field, r, read.buffer)
    \* buffer == null
    ELSE IF "img" \in field.properties THEN Placeholder(field, r)
    ELSE Fail(Err("ReturnedNull", r.path))

processFieldSync(field, dirname) ==
    IF field.properties = {}
    THEN Done([Blank EXCEPT !.kind = "plain", !.value = field.value])
    ELSE IF "uint" \in field.properties
    THEN Done([Blank EXCEPT !.kind = "number", !.num = parseInt(field.value)])
    ELSE IF "number" \in field.properties
    THEN Done([Blank EXCEPT !.kind = "number", !.num = parseFloat(field.value)])
    ELSE IF ~shouldLoadBuffer(field)
    THEN Decode(field, Blank, <<>>)
    ELSE processFieldSyncRead(field, Started(field, dirname), ReadOf(field, dirname))

\* processField, from the "buffer" task of async.auto on: bufferInit handed
\* over [err, buffer], which is [null, null] when no file is to be read.
BufferErr(r, read) ==
    IF read.null THEN Err("ReturnedNull", r.path)
    ELSE IF read.res = "err" THEN Err("ReadError", r.path)
    ELSE NoErr

processFieldAuto(field, r, read) ==
    IF BufferErr(r, read) = NoErr THEN Decode(field, r, read.buffer)
    ELSE IF "img" \in field.properties THEN Placeholder(field, r)
    ELSE Fail(BufferErr(r, read))

processFieldBuffer(field, dirname, read) ==
    processFieldAuto(field,
                     IF shouldLoadBuffer(field) THEN Started(field, dirname) ELSE Blank,
                     read)

\* bufferInit when no file is to be read: __next(null, null, null)
NoRead == [res |-> "null", buffer |-> <<>>, sync |-> FALSE, null |-> TRUE]

\* ------------------------------------------------------------------------
\* The merged tree
\* ------------------------------------------------------------------------
IsPrefix(p, q) == Len(p) <= Len(q) /\ SubSeq(q, 1, Len(p)) = p
Parent(p) == SubSeq(p, 1, Len(p) - 1)
EmptyTree == [q \in {} |-> Blank]

\* dest[fieldName] = node: what was stored below the field is dropped with
\* the value it replaces, unless the node is the object already there
Put(data, p, node) ==
    LET keep == {q \in DOMAIN data : ~(IsPrefix(p, q) /\ q # p)}
    IN [q \in keep \cup {p} |-> IF q = p THEN node ELSE data[q]]

\* typeof dest[fieldName] === "undefined" ? dest[fieldName] = {} : reuse it
Ensure(data, p) ==
    IF p \in DOMAIN data THEN data
    ELSE [q \in DOMAIN data \cup {p} |-> IF q = p THEN ObjNode ELSE data[q]]

\* the value a reader of the tree finds at p: the node and all below it
Subtree(data, p) == [q \in {x \in DOMAIN data : IsPrefix(p, x)} |-> data[q]]

\* sources.map(convertKeysToFields): the first failing source throws
FirstFailure(conv, bad) ==
    IF bad = {} THEN [err |-> NoErr, sources |-> conv]
    ELSE [err |-> conv[CHOOSE i \in bad : \A j \in bad : i <= j].err, sources |-> <<>>]

AllConverted(conv) == FirstFailure(conv, {i \in 1..Len(conv) : conv[i].err # NoErr})

convertAll(sources, heap) ==
    AllConverted([i \in 1..Len(sources) |-> convertKeysToFields(sources[i], heap)])

\* ------------------------------------------------------------------------
\* consumeSync: st = [data, heap, err, log]
\* log: every terminal field processed, with what its processing gave
\* ------------------------------------------------------------------------
Logged(path, field, dirname, r) ==
    [path |-> path, field |-> field, dirname |-> dirname, r |-> r]

RECURSIVE consumeSync(_, _, _)
RECURSIVE consumeSyncFields(_, _, _, _)

consumeSyncConverted(st, previousFieldName, conv) ==
    IF conv.err # NoErr THEN [st EXCEPT !.err = conv.err]
    ELSE consumeSyncFields(st, previousFieldName, conv.sources,
                           getAllFieldNames(conv.sources))

consumeSync(st, previousFieldName, sources) ==
    consumeSyncConverted(st, previousFieldName, convertAll(sources, st.heap))

\* one turn of the loop over allFieldNames
consumeSyncField(st, fullFieldName, fieldName, srcs, first, r) ==
    IF Inconsistent(srcs, fieldName)
    THEN [st EXCEPT !.err = Err("InconsistentNesting", fullFieldName)]
    ELSE IF isConsumable(first)
    THEN consumeSync([st EXCEPT !.data = Ensure(st.data, fullFieldName),
                                !.heap = CopyDirnames(st.heap, srcs, fieldName)],
                     fullFieldName, NestedSources(srcs, fieldName))
    ELSE IF r.err # NoErr
    THEN [st EXCEPT !.err = r.err,
                    !.log = @ \cup {Logged(fullFieldName, first, srcs[1].dirname, r)}]
    ELSE [st EXCEPT !.data = Put(st.data, fullFieldName, r.result),
                    !.log = @ \cup {Logged(fullFieldName, first, srcs[1].dirname, r)}]

FirstField(sources, fieldName) ==
    FieldOf(FilterDefining(sources, fieldName)[1], fieldName)
FirstDirname(sources, fieldName) == FilterDefining(sources, fieldName)[1].dirname

consumeSyncFields(st, previousFieldName, sources, names) ==
    IF names = <<>> \/ st.err # NoErr THEN st
    ELSE consumeSyncFields(
            consumeSyncField(st, Append(previousFieldName, Head(names)), Head(names),
                             FilterDefining(sources, Head(names)),
                             FirstField(sources, Head(names)),
                             processFieldSync(FirstField(sources, Head(names)),
                                              FirstDirname(sources, Head(names)))),
            previousFieldName, sources, Tail(names))

\* ------------------------------------------------------------------------
\* The onceLoaded registry (_onLoadedCallback, the drain of load)
\* st = [data, heap, loaded, listeners, fired, each, pending, ticks, loadCb, log,
\*       errs]; errs: the errors raised so far, in the order they were raised
\* ------------------------------------------------------------------------
\* listeners: the entries of _loadedListeners in key order, [field, cbs]
HasListeners(listeners, field) == \E i \in 1..Len(listeners) : listeners[i].field = field
ListenersOf(listeners, field) ==
    listeners[CHOOSE i \in 1..Len(listeners) : listeners[i].field = field].cbs

RECURSIVE Without(_, _)
Without(listeners, field) ==
    IF listeners = <<>> THEN <<>>
    ELSE IF Head(listeners).field = field THEN Without(Tail(listeners), field)
    ELSE <<Head(listeners)>> \o Without(Tail(listeners), field)

\* cb(null, value) for every cb of cbs, in the order of cbs
Invoke(fired, cbs, field, absent, value) ==
    fired \o [i \in 1..Len(cbs) |->
                [cb |-> cbs[i], field |-> field, absent |-> absent, value |-> value]]

\* a variant that fires the listeners of the field and keeps their queue
onLoadedCallbackKeep(st, fullFieldName) ==
    LET st1 == [st EXCEPT !.loaded = @ \cup {fullFieldName}]
    IN IF HasListeners(st.listeners, fullFieldName)
       THEN [st1 EXCEPT
               !.fired = Invoke(@, ListenersOf(st.listeners, fullFieldName),
                                fullFieldName, FALSE, Subtree(st.data, fullFieldName))]
       ELSE st1
onLoadedCallback(st, fullFieldName) ==
    LET st1 == [st EXCEPT !.loaded = @ \cup {fullFieldName}]
    IN IF HasListeners(st.listeners, fullFieldName)
       THEN [st1 EXCEPT
               !.fired = Invoke(@, ListenersOf(st.listeners, fullFieldName),
                                fullFieldName, FALSE, Subtree(st.data, fullFieldName)),
               !.listeners = Without(@, fullFieldName)]
       ELSE st1

RECURSIVE Drain(_, _)
Drain(fired, listeners) ==
    IF listeners = <<>> THEN fired
    ELSE Drain(Invoke(fired, Head(listeners).cbs, Head(listeners).field, TRUE, EmptyTree),
               Tail(listeners))

\* a variant that leaves the queued listeners alone
loadCallbackOnly(st, err) == [st EXCEPT !.loadCb = Append(@, err)]
\* the callback load hands to consume: drain the listeners, then next(err, this)
loadCallback(st, err) ==
    [st EXCEPT !.fired = Drain(@, st.listeners),
               !.listeners = <<>>,
               !.loadCb = Append(@, err)]

\* ------------------------------------------------------------------------
\* consume: async.each over the field names of one level
\* ------------------------------------------------------------------------
\* async.each's iteratorCallback for field F (the _next of the iteratee), with
\* what it sets off: once the level of F has an error or all its fields,
\* async.each's callback = once(callback) runs the next argument of that
\* level's consume, which is load's callback at the root and otherwise hands
\* the outcome (after onLoadedCallback, without an error) to the _next of the
\* nested field.
RECURSIVE iteratorCallback(_, _, _)

\* a variant without once(callback)
eachDoneAgain(st, P, err) ==
    IF P = <<>> THEN loadCallback([st EXCEPT !.each[P].called = TRUE], err)
    ELSE IF err # NoErr
    THEN iteratorCallback([st EXCEPT !.each[P].called = TRUE], P, err)
    ELSE iteratorCallback(onLoadedCallback([st EXCEPT !.each[P].called = TRUE], P),
                          P, NoErr)
eachDone(st, P, err) ==
    IF st.each[P].called THEN st
    ELSE IF P = <<>> THEN loadCallback([st EXCEPT !.each[P].called = TRUE], err)
    ELSE IF err # NoErr
    THEN iteratorCallback([st EXCEPT !.each[P].called = TRUE], P, err)
    ELSE iteratorCallback(onLoadedCallback([st EXCEPT !.each[P].called = TRUE], P),
                          P, NoErr)

\* a variant that takes the first field that completes for all of them
completedOneFirst(st, P) == eachDone(st, P, NoErr)
completedOne(st, P) ==
    IF st.each[P].completed = st.each[P].length THEN eachDone(st, P, NoErr) ELSE st

iteratorCallback(st, F, err) ==
    IF err # NoErr THEN eachDone(st, Parent(F), err)
    ELSE completedOne([st EXCEPT !.each[Parent(F)].completed = @ + 1], Parent(F))

\* the next argument of consume at the level of path P, called by consume
\* itself when a source does not convert
consumeNext(st, P, err) ==
    IF P = <<>> THEN loadCallback(st, err)
    ELSE iteratorCallback(st, P, err)

\* the callback of processField in consume
Raised(st, err) == [st EXCEPT !.errs = Append(@, err)]

fieldDone(st, F, r) ==
    IF r.err # NoErr THEN iteratorCallback(Raised(st, r.err), F, r.err)
    ELSE iteratorCallback(onLoadedCallback([st EXCEPT !.data = Put(@, F, r.result)], F),
                          F, NoErr)

fieldCallback(st, F, field, dirname, r) ==
    fieldDone([st EXCEPT !.log = @ \cup {Logged(F, field, dirname, r)}], F, r)

\* a callback waiting in the process.nextTick queue
Tick(k, path, field, dirname, r, cb) ==
    [k |-> k, path |-> path, field |-> field, dirname |-> dirname, r |-> r, cb |-> cb]

\* processField up to its first suspension
processField(st, F, field, dirname) ==
    IF field.properties = {} \/ "uint" \in field.properties
          \/ "number" \in field.properties
    THEN [st EXCEPT !.ticks = Append(@, Tick("field", F, field, dirname,
                                  processFieldSync(field, dirname), 0))]
    ELSE IF ~shouldLoadBuffer(field)
    THEN [st EXCEPT !.ticks = Append(@, Tick("field", F, field, dirname,
                                  processFieldBuffer(field, dirname, NoRead), 0))]
    ELSE IF ReadOf(field, dirname).sync
    THEN fieldCallback(st, F, field, dirname,
                       processFieldBuffer(field, dirname, ReadOf(field, dirname)))
    ELSE [st EXCEPT !.pending = @ \cup {[path |-> F, field |-> field, dirname |-> dirname]}]

RECURSIVE consume(_, _, _)
RECURSIVE consumeFields(_, _, _, _)

Each(each, P, length) ==
    [q \in DOMAIN each \cup {P} |->
        IF q = P THEN [length |-> length, completed |-> 0, called |-> FALSE]
        ELSE each[q]]

consumeNames(st, previousFieldName, sources, names) ==
    IF names = <<>>
    THEN eachDone([st EXCEPT !.each = Each(@, previousFieldName, 0)],
                  previousFieldName, NoErr)
    ELSE consumeFields([st EXCEPT !.each = Each(@, previousFieldName, Len(names))],
                       previousFieldName, sources, names)

consumeConverted(st, previousFieldName, conv) ==
    IF conv.err # NoErr THEN consumeNext(Raised(st, conv.err), previousFieldName, conv.err)
    ELSE consumeNames(st, previousFieldName, conv.sources, getAllFieldNames(conv.sources))

consume(st, previousFieldName, sources) ==
    consumeConverted(st, previousFieldName, convertAll(sources, st.heap))

\* the iteratee of async.each for one field name
consumeField(st, fullFieldName, fieldName, srcs, first) ==
    IF Inconsistent(srcs, fieldName)
    THEN iteratorCallback(Raised(st, Err("InconsistentNesting", fullFieldName)),
                          fullFieldName, Err("InconsistentNesting", fullFieldName))
    ELSE IF isConsumable(first)
    THEN consume([st EXCEPT !.data = Ensure(st.data, fullFieldName),
                            !.heap = CopyDirnames(st.heap, srcs, fieldName)],
                 fullFieldName, NestedSources(srcs, fieldName))
    ELSE processField(st, fullFieldName, first, srcs[1].dirname)

consumeFields(st, previousFieldName, sources, names) ==
    IF names = <<>> THEN st
    ELSE consumeFields(
            consumeField(st, Append(previousFieldName, Head(names)), Head(names),
                         FilterDefining(sources, Head(names)),
                         FirstField(sources, Head(names))),
            previousFieldName, sources, Tail(names))

\* ------------------------------------------------------------------------
\* The source objects of the model
\* ------------------------------------------------------------------------
DEFAULT_OPTIONS ==
    <<E(<<"fonts">>, Obj(<<E(<<"title", " ", "(", "font", ")">>, Str(DEJAVU_BOLD)),
                           E(<<"body", " ", "(", "font", ")">>, Str(DEJAVU))>>)),
      E(<<"fontRenderMode">>, Str("auto"))>>

\* option mappings as the command line and a config file give them
U1 == <<E(<<"a">>, Str("u1")),
        E(<<"fontRenderMode">>, Str("u1")),
        E(<<"_note">>, Str("private")),
        E(<<"query">>, Obj(<<E(<<"title">>, Str("Cash Out"))>>))>>
U2 == <<E(<<"a">>, Str("u2")),
        E(<<"b", " ", "(", "uint", ")">>, Str("7")),
        E(<<"fonts">>, Obj(<<E(<<"title", " ", "(", "font", ")">>, Str("f.ttf"))>>))>>
U3 == <<E(<<"b">>, Str("u3")),
        E(<<"fontRenderMode">>, Str("u3")),
        E(<<"tags", "[]">>, Arr("x,y"))>>

\* mappings with assets that load, assets that do not, and clashes
L1 == <<E(<<"t", " ", "(", "path", ")">>, Str("t.pug")),
        E(<<"n">>, Obj(<<E(<<"x", " ", "(", "img", ")">>, Str("i.png")),
                         E(<<"y">>, Str("1"))>>))>>
L2 == <<E(<<"h", " ", "(", "img", ")">>, Str("gone.png")),
        E(<<"g", " ", "(", "path", ")">>, Str("gone.txt")),
        E(<<"n">>, Str("scalar"))>>
L3 == <<E(<<"i", " ", "(", "img", ",", "path", ")">>, Str("nul")),
        E(<<"n">>, Obj(<<E(<<"x", " ", "(", "img", ")">>, Str("")),
                         E(<<"z", " ", "(", "path", ")">>, Str(""))>>)),
        E(<<"d", " ", "(", "font", ")">>, Str("f.ttf"))>>
L4 == <<E(<<"e">>, Obj(<<>>)),
        E(<<"q", " ", "(", "bar", ")">>, Str("v")),
        E(<<"u">>, Undefined),
        E(<<"i", " ", "(", "img", ")">>, Str("i.png"))>>
L5 == <<E(<<"m">>, Obj(<<E(<<"k">>, Str("1")),
                         E(<<"k", " ", "(", "uint", ")">>, Str("7"))>>)),
        E(<<"d", " ", "(", "path", ")">>, Str("nul")),
        E(<<"w", " ", "(", "img", ",", "font", ")">>, Str("missing.png"))>>

\* what ReadAndRender waits for: /template, /data, /query
S1 == <<E(<<"template", " ", "(", "path", ")">>, Str("t.pug")),
        E(<<"query">>, Obj(<<E(<<"title">>, Str("Cash Out"))>>))>>
S2 == <<E(<<"data", " ", "(", "path", ")">>, Str("gone.csv"))>>

\* ------------------------------------------------------------------------
\* Card data: the rows of a CSV table as sources (utils.csvToObjects, csv.js)
\* A table is the sequence of its rows, the header first; a cell is a string.
\* ------------------------------------------------------------------------
\* ARRAY_REGEX.test(key), ARRAY_REGEX being /\[\]$/
IsArrayKey(key) == key # <<>> /\ key[Len(key)] = "[]"

HasKey(obj, key) == \E k \in 1..Len(obj) : obj[k].key = key
SetKey(obj, key, val) ==
    IF HasKey(obj, key)
    THEN [k \in 1..Len(obj) |-> IF obj[k].key = key THEN E(key, val) ELSE obj[k]]
    ELSE Append(obj, E(key, val))
ValueOf(obj, key) ==
    IF HasKey(obj, key) THEN obj[CHOOSE k \in 1..Len(obj) : obj[k].key = key].val
    ELSE Undefined

\* row[i]
Cell(row, i) == IF i <= Len(row) THEN Str(row[i]) ELSE Undefined

\* a variant that keeps the last cell only
pushCellLast(obj, key, cell) == SetKey(obj, key, ArrOf(<<cell>>))
\* obj[key] = obj[key] || []; obj[key].push(row[i])
pushCell(obj, key, cell) ==
    IF HasKey(obj, key)
    THEN SetKey(obj, key, ArrOf(Append(ValueOf(obj, key).o, cell)))
    ELSE SetKey(obj, key, ArrOf(<<cell>>))

RECURSIVE csvRowToObject(_, _, _, _)
csvRowToObject(header, row, i, obj) ==
    IF i > Len(header) THEN obj
    ELSE csvRowToObject(header, row, i + 1,
            IF IsArrayKey(header[i]) THEN pushCell(obj, header[i], Cell(row, i))
            ELSE SetKey(obj, header[i], Cell(row, i)))

csvToObjects(csvRows) ==
    [r \in 1..(Len(csvRows) - 1) |-> csvRowToObject(csvRows[1], csvRows[r + 1], 1, <<>>)]

\* "id" + (1e6 + i)
RowId(i) == CASE i = 0 -> "id1000000" [] i = 1 -> "id1000001" [] OTHER -> "id100000n"

\* if (typeof obj.id === "undefined") obj.id = "id" + (1e6 + i)
WithId(obj, i) ==
    IF ValueOf(obj, <<"id">>).t = "undefined" THEN SetKey(obj, <<"id">>, Str(RowId(i)))
    ELSE obj

csvBufferToObjects(csvRows) ==
    [r \in 1..(Len(csvRows) - 1) |-> WithId(csvToObjects(csvRows)[r], r - 1)]

\* a card table: a count, a cost, an image, three columns of tags
CardsCsv ==
    <<<< <<"id">>, <<"count", " ", "(", "uint", ")">>,
         <<"cost", " ", "(", "number", ")">>, <<"art", " ", "(", "img", ")">>,
         <<"tags", "[]">>, <<"tags", "[]">>, <<"tags", "[]">> >>,
      <<"k1", "7", "2.5", "i.png", "a", "b", "c">>,
      <<"k2", "abc", "x", "gone.png", "c", "a", "b">>,
      <<"k3", "-5", "7", "i.png", "b", "", "a">> >>

\* a table whose two tag columns are written differently
TagsCsv ==
    <<<< <<"tags", "[]">>, <<"tags", " ", "[]">>, <<"tags", "[]">> >>,
      <<"a", "b", "c">> >>

\* mappings of a config file with two keys for one field
D1 == <<E(<<"title">>, Str("Cash Out")),
        E(<<"title", " ", "(", "path", ")">>, Str("t.pug"))>>
D2 == <<E(<<"tags", "[]">>, ArrOf(<<Str("a")>>)),
        E(<<"tags", " ", "[]">>, ArrOf(<<Str("b")>>))>>

\* a config mapping with an empty note and a query that is switched off
G1 == <<E(<<"note">>, Str("")),
        E(<<"data", " ", "(", "path", ")">>, Str("t.pug")),
        E(<<"query">>, Obj(<<E(<<"multiples">>, Null)>>))>>

\* mappings with nested objects whose fields resolve at different times
N1 == <<E(<<"template", " ", "(", "path", ")">>, Str("t.pug")),
        E(<<"fonts">>,
          Obj(<<E(<<"title", " ", "(", "font", ")">>, Str("f.ttf")),
                E(<<"sizes">>, Obj(<<E(<<"big", " ", "(", "uint", ")">>, Str("7")),
                                     E(<<"art", " ", "(", "img", ")">>, Str("i.png"))>>)),
                E(<<"mode">>, Str("auto"))>>))>>
N2 == <<E(<<"fonts">>,
          Obj(<<E(<<"body", " ", "(", "font", ")">>, Str("gone.ttf")),
                E(<<"extra", " ", "(", "path", ")">>, Str("t.pug"))>>))>>

\* a bundle's mapping, its assets read through a reader function
N3 == <<E(<<"fonts">>,
          Obj(<<E(<<"title", " ", "(", "font", ")">>, Str("f.ttf")),
                E(<<"sizes">>, Obj(<<E(<<"art", " ", "(", "img", ")">>, Str("i.png")),
                                     E(<<"logo", " ", "(", "img", ")">>, Str("i.png"))>>)),
                E(<<"back", " ", "(", "path", ")">>, Str("gone.svg"))>>))>>

\* the options handed to a ReadAndRender: a query by title, the query of the
\* command line (its id null), and no option at all
Q1 == <<E(<<"query">>, Obj(<<E(<<"title">>, Str("Cash Out"))>>))>>
Q2 == <<E(<<"query">>, Obj(<<E(<<"id">>, Null), E(<<"title">>, Str("Mint"))>>))>>
Q0 == <<>>

\* what the config files parse to: a full one, one without a template, one
\* whose data file is missing, one whose data has no id column
R1 == <<E(<<"template", " ", "(", "path", ")">>, Str("t.pug")),
        E(<<"data", " ", "(", "path", ")">>, Str("cards.csv"))>>
R2 == <<E(<<"data", " ", "(", "path", ")">>, Str("cards.csv"))>>
R3 == <<E(<<"template", " ", "(", "path", ")">>, Str("t.pug")),
        E(<<"data", " ", "(", "path", ")">>, Str("gone.csv"))>>
R4 == <<E(<<"template", " ", "(", "path", ")">>, Str("t.pug")),
        E(<<"data", " ", "(", "path", ")">>, Str("plain.csv"))>>

\* the sources of a bundle: its template and data, its config, its fonts
BT == <<E(<<"template", " ", "(", "path", ")">>, Str("template.pug")),
        E(<<"data", " ", "(", "path", ")">>, Str("cards.csv"))>>
B1 == <<E(<<"fontRenderMode">>, Str("svg"))>>
F1 == <<E(<<"fonts">>, Obj(<<E(<<"extra", " ", "(", "font", ")">>, Str("f.ttf"))>>))>>
F0 == <<E(<<"fonts">>, Obj(<<>>))>>

\* mappings whose keys declare path, img and font alone and together, and
\* uint or number next to them
A1 == <<E(<<"a", " ", "(", "uint", ",", "img", ")">>, Str("7")),
        E(<<"b", " ", "(", "img", ",", "path", ")">>, Str("i.png")),
        E(<<"c", " ", "(", "font", ",", "path", ")">>, Str("f.ttf")),
        E(<<"d", " ", "(", "path", ")">>, Str("i.png"))>>
A2 == <<E(<<"e", " ", "(", "number", ",", "font", ")">>, Str("2.5")),
        E(<<"f">>, Str("f.ttf")),
        E(<<"g", " ", "(", "img", ")">>, Str("gone.png")),
        E(<<"h", " ", "(", "font", ")">>, Str("f.ttf"))>>

RawOf(id) ==
    CASE id = "DEFAULT_OPTIONS" -> DEFAULT_OPTIONS
      [] id = "A1" -> A1 [] id = "A2" -> A2
      [] id = "K1" -> csvBufferToObjects(CardsCsv)[1]
      [] id = "K2" -> csvBufferToObjects(CardsCsv)[2]
      [] id = "K3" -> csvBufferToObjects(CardsCsv)[3]
      [] id = "T1" -> csvBufferToObjects(TagsCsv)[1]
      [] id = "D1" -> D1 [] id = "D2" -> D2 [] id = "G1" -> G1
      [] id = "N1" -> N1 [] id = "N2" -> N2 [] id = "N3" -> N3
      [] id = "U1" -> U1 [] id = "U2" -> U2 [] id = "U3" -> U3
      [] id = "L1" -> L1 [] id = "L2" -> L2 [] id = "L3" -> L3
      [] id = "L4" -> L4 [] id = "L5" -> L5
      [] id = "S1" -> S1 [] id = "S2" -> S2
      [] id = "Q0" -> Q0 [] id = "Q1" -> Q1 [] id = "Q2" -> Q2
      [] id = "R1" -> R1 [] id = "R2" -> R2 [] id = "R3" -> R3 [] id = "R4" -> R4
      [] id = "BT" -> BT [] id = "B1" -> B1 [] id = "F1" -> F1 [] id = "F0" -> F0

\* a source with the dirname it is added with
LayerInputs == {<<"U1", "">>, <<"U2", "/cfg">>, <<"U3", "">>}
LoadInputs == {<<"L1", "/cfg">>, <<"L2", "/cfg">>, <<"L3", ReaderFn>>,
               <<"L4", ReaderFn>>, <<"L5", ReaderFn>>}
SignalInputs == {<<"S1", "/cfg">>, <<"S2", "/cfg">>}
CardInputs == {<<"K1", "/cfg">>, <<"K2", "/cfg">>, <<"K3", "/cfg">>, <<"T1", "/cfg">>,
               <<"D1", "/cfg">>, <<"D2", "/cfg">>}
SignalPaths == {<<"template">>, <<"data">>, <<"query">>}
LeafInputs == {<<"A1", "/cfg">>, <<"A2", ReaderFn>>, <<"A2", "/cfg">>}

\* ------------------------------------------------------------------------
\* State
\* ------------------------------------------------------------------------
VARIABLES
    _data,              \* Options._data, the merged tree
    _sources,           \* Options._sources: source objects, highest priority first
    _overrides,         \* Options._overrides
    _loaded,            \* Options._loaded: the paths marked loaded
    _loadedListeners,   \* Options._loadedListeners: <<[field, cbs]>> in key order
    _dirname,           \* the _dirname property of the source objects, by reference
    each,               \* async.each per consume level: [length, completed, called]
    pending,            \* file reads in flight: [path, field, dirname]
    ticks,              \* the process.nextTick queue
    fired,              \* the listener invocations so far, in order
    loadCb,             \* the invocations of load's callback so far: their err
    thrown,             \* what loadSync threw (NoErr: it returned)
    log,                \* the terminal fields processed so far, with their outcome
    errs,               \* the errors raised in load so far, in order
    pc,                 \* "idle", then "load" or "loadSync" once the pass began
    calls,              \* the add calls so far: [op, src]
    regs,               \* the onceLoaded calls so far: [cb, field, loaded, ended]
    got,                \* the last get call: [called, path, err, value]
    pageRenderer,       \* the PageRenderer constructed, or what its constructor threw
    pages,              \* what the last render / renderConcatenated gave
    rr,                 \* the ReadAndRender instance and what its load did
    multipliedCards,    \* what the last multiplyCards call was given and gave
    fieldKey,           \* the key last given to parseFieldKey and what it returned
    xml,                \* the text last given to stripXML and what applyXML gave back
    reader              \* a CcsbReader: its path, its zip, its calls in flight

vars == <<_data, _sources, _overrides, _loaded, _loadedListeners, _dirname, each,
          pending, ticks, fired, loadCb, thrown, log, errs, pc, calls, regs,
          got, pageRenderer, pages, rr, multipliedCards, fieldKey, xml, reader>>

\* bounds of the model
MaxAdds == 3
MaxLoadAdds == 2
MaxListeners == 2

\* ------------------------------------------------------------------------
\* Options.get.  The value reached is the tree or a node of it (at), a
\* property of a resolved asset (prop), or undefined.
\* ------------------------------------------------------------------------
At(p) == [k |-> "at", p |-> p]
Prop(p) == [k |-> "prop", p |-> p]
Missing == [k |-> "undefined", p |-> <<>>]

\* the properties of a resolved asset that are set
HasProp(node, name) ==
    /\ node.kind = "asset"
    /\ CASE name = "dirname" -> node.dirname # NoDirname
         [] name = "path" -> node.path # <<>>
         [] name = "mimeType" -> node.mimeType # ""
         [] name = "buffer" -> node.buffer # <<>>
         [] name = "dataUri" -> node.dataUri # <<>>
         [] name = "dims" -> node.dims # <<>>
         [] name = "wrappr" -> node.wrappr # <<>>
         [] OTHER -> FALSE

\* !node, for a node of the tree: null, "", NaN and 0 are false
FalsyNode(node) ==
    \/ node.kind = "plain" /\ node.value \in {Null, Str("")}
    \/ node.kind = "number" /\ node.num \in {"NaN", "0"}

\* a variant for which every value is true
FalsyNever(data, result) == FALSE
\* !result
Falsy(data, result) ==
    \/ result.k = "undefined"
    \/ result.k = "at" /\ result.p # <<>> /\ FalsyNode(data[result.p])

\* result[fieldNames[i]]
Index(data, result, name) ==
    IF result.k # "at" THEN Missing
    ELSE IF result.p = <<>> \/ data[result.p].kind = "obj"
    THEN (IF Append(result.p, name) \in DOMAIN data THEN At(Append(result.p, name))
          ELSE Missing)
    ELSE IF HasProp(data[result.p], name) THEN Prop(Append(result.p, name))
    ELSE Missing

RECURSIVE getFrom(_, _, _, _)
getFrom(data, fieldNames, i, result) ==
    IF i > Len(fieldNames) THEN [err |-> NoErr, value |-> result]
    ELSE IF Falsy(data, result)
    THEN [err |-> Err("CannotFindField", fieldNames), value |-> Missing]
    ELSE getFrom(data, fieldNames, i + 1, Index(data, result, fieldNames[i]))

Got(fullFieldName, r) ==
    [called |-> TRUE, path |-> fullFieldName, err |-> r.err, value |-> r.value]
NoGet == [called |-> FALSE, path |-> <<>>, err |-> NoErr, value |-> Missing]

\* ------------------------------------------------------------------------
\* PageRenderer (lib/svg.js).  A coordinate is a fraction in lowest terms;
\* a card is named by its side and its place in the sequence handed over.
\* ------------------------------------------------------------------------
Abs(a) == IF a < 0 THEN -a ELSE a

RECURSIVE GCD(_, _)
GCD(a, b) == IF b = 0 THEN a ELSE GCD(b, a % b)

\* n / d, for d > 0
Frac(n, d) == [n |-> n \div GCD(Abs(n), d), d |-> d \div GCD(Abs(n), d)]
Whole(k) == Frac(k, 1)
Plus(a, b) == Frac(a.n * b.d + b.n * a.d, a.d * b.d)
Scale(a, k) == Frac(a.n * k, a.d)
Leq(a, b) == a.n * b.d <= b.n * a.d

\* Math.trunc(a / b), for b # 0
Trunc(a, b) ==
    IF (a >= 0) = (b > 0) THEN Abs(a) \div Abs(b) ELSE -(Abs(a) \div Abs(b))

\* a variant that takes the whole width of the sheet
pageWidthFull(viewport) == viewport.width
\* viewport.width - 2*viewport.printMargin
pageWidth(viewport) == viewport.width - 2 * viewport.printMargin
pageHeight(viewport) == viewport.height - 2 * viewport.printMargin
hCap(viewport) == Trunc(pageWidth(viewport), viewport.cardWidth)
vCap(viewport) == Trunc(pageHeight(viewport), viewport.cardHeight)

\* even spacing: space between all of the cards and the edge of the paper
hSpc(viewport) ==
    Frac(pageWidth(viewport) - hCap(viewport) * viewport.cardWidth, hCap(viewport) + 1)
vSpc(viewport) ==
    Frac(pageHeight(viewport) - vCap(viewport) * viewport.cardHeight, vCap(viewport) + 1)

evenSpacingX(viewport, j) ==
    Plus(Plus(hSpc(viewport), Scale(Plus(hSpc(viewport), Whole(viewport.cardWidth)), j)),
         Whole(viewport.printMargin))
evenSpacingY(viewport, i) ==
    Plus(Plus(vSpc(viewport), Scale(Plus(vSpc(viewport), Whole(viewport.cardHeight)), i)),
         Whole(viewport.printMargin))

\* the default: all the cards bunched tightly in the middle of the paper
hMar(viewport) == Frac(pageWidth(viewport) - hCap(viewport) * viewport.cardWidth, 2)
vMar(viewport) == Frac(pageHeight(viewport) - vCap(viewport) * viewport.cardHeight, 2)

tightX(viewport, j) ==
    Plus(Plus(hMar(viewport), Whole(viewport.cardWidth * j)), Whole(viewport.printMargin))
tightY(viewport, i) ==
    Plus(Plus(vMar(viewport), Whole(viewport.cardHeight * i)), Whole(viewport.printMargin))

\* let jr = hCap - jx - 1
jr(viewport, jx) == hCap(viewport) - jx - 1

\* this._placeholders.push({ x, y, xr }) for row i and column jx
placeholderAt(viewport, strategy, i, jx) ==
    IF strategy = "evenSpacing"
    THEN [x |-> evenSpacingX(viewport, jx), y |-> evenSpacingY(viewport, i),
          xr |-> evenSpacingX(viewport, jr(viewport, jx))]
    ELSE [x |-> tightX(viewport, jx), y |-> tightY(viewport, i),
          xr |-> tightX(viewport, jr(viewport, jx))]

\* for (i < vCap) for (jx < hCap): the rows one after the other
placeholders(viewport, strategy) ==
    IF vCap(viewport) <= 0 \/ hCap(viewport) <= 0 THEN <<>>
    ELSE [k \in 1..(vCap(viewport) * hCap(viewport)) |->
            placeholderAt(viewport, strategy, (k - 1) \div hCap(viewport),
                          (k - 1) % hCap(viewport))]

\* no PageRenderer constructed yet, nothing rendered yet
NoRenderer ==
    [made |-> FALSE, err |-> NoErr, viewport |-> <<>>, reversed |-> FALSE,
     _capacity |-> 0, _placeholders |-> <<>>]

\* new PageRenderer(viewport, strategy, reversed)
constructor(viewport, strategy, reversed) ==
    IF hCap(viewport) * vCap(viewport) = 0
    THEN [NoRenderer EXCEPT !.err = Err("CannotFit", <<>>), !.viewport = viewport]
    ELSE [made |-> TRUE, err |-> NoErr, viewport |-> viewport, reversed |-> reversed,
          _capacity |-> hCap(viewport) * vCap(viewport),
          _placeholders |-> placeholders(viewport, strategy)]

_DEFAULT_CARD == <<"rect", "#D9D9D9">>

\* cards.slice(begin, end)
SliceIndex(length, k) ==
    IF k < 0 THEN (IF length + k < 0 THEN 0 ELSE length + k)
    ELSE IF k > length THEN length ELSE k
slice(cards, begin, end) ==
    SubSeq(cards, SliceIndex(Len(cards), begin) + 1, SliceIndex(Len(cards), end))

\* a variant that never mirrors
cellXSame(placeholder, reversed) == placeholder.x
\* if (reversed) x = xr
cellX(placeholder, reversed) == IF reversed THEN placeholder.xr ELSE placeholder.x

\* one page: where it is put, and what is drawn on it, cell by cell
_renderOne(this, cards, yCoord, reversed) ==
    IF ~(Len(cards) <= this._capacity)
    THEN [err |-> Err("AssertionError", <<>>), y |-> yCoord, cells |-> <<>>]
    ELSE [err |-> NoErr, y |-> yCoord,
          cells |-> [i \in 1..Len(this._placeholders) |->
                        [x |-> cellX(this._placeholders[i], reversed),
                         y |-> this._placeholders[i].y,
                         card |-> IF i <= Len(cards) THEN cards[i]
                                  ELSE _DEFAULT_CARD]]]

NoPages ==
    [by |-> "", cards |-> <<>>, cardBacks |-> <<>>, err |-> NoErr, pages |-> <<>>,
     numPages |-> 0]
NoBacks == <<>>

\* the loop of render and of renderConcatenated from i on; out: what is built
\* so far; concatenated: the pages lie one below the other, at y = numPages
RECURSIVE renderLoop(_, _, _, _, _, _)
backPage(this, cards, cardBacks, i, concatenated, out, page) ==
    IF page.err # NoErr THEN [out EXCEPT !.err = page.err]
    ELSE renderLoop(this, cards, cardBacks, i + this._capacity, concatenated,
                    [out EXCEPT !.pages = Append(@, page), !.numPages = @ + 1])

frontPage(this, cards, cardBacks, i, concatenated, out, page) ==
    IF page.err # NoErr THEN [out EXCEPT !.err = page.err]
    ELSE IF cardBacks = NoBacks
    THEN renderLoop(this, cards, cardBacks, i + this._capacity, concatenated,
                    [out EXCEPT !.pages = Append(@, page), !.numPages = @ + 1])
    ELSE backPage(this, cards, cardBacks, i, concatenated,
                  [out EXCEPT !.pages = Append(@, page), !.numPages = @ + 1],
                  _renderOne(this, slice(cardBacks, i, i + this._capacity),
                             IF concatenated THEN out.numPages + 1 ELSE 0,
                             ~this.reversed))

renderLoop(this, cards, cardBacks, i, concatenated, out) ==
    IF ~(i < Len(cards)) THEN out
    ELSE frontPage(this, cards, cardBacks, i, concatenated, out,
                   _renderOne(this, slice(cards, i, i + this._capacity),
                              IF concatenated THEN out.numPages ELSE 0,
                              this.reversed))

Rendering(by, cards, cardBacks) ==
    [NoPages EXCEPT !.by = by, !.cards = cards, !.cardBacks = cardBacks]

NoField ==
    [name |-> "", properties |-> {}, array |-> FALSE, value |-> Undefined,
     ref |-> Ref("", <<>>)]

\* no ReadAndRender instance yet.  results: what the tasks of load gave, a
\* value of the tree being null, undefined, or the tree below a field
NoResults ==
    [optionTemplate |-> [k |-> "undefined", value |-> EmptyTree],
     optionData |-> [k |-> "undefined", value |-> EmptyTree],
     optionQuery |-> [k |-> "undefined", value |-> EmptyTree],
     cardData |-> <<>>, cards |-> <<>>]
NoReadAndRender ==
    [phase |-> "none", configPath |-> "", ccsb |-> "", zip |-> FALSE, reading |-> "",
     started |-> {}, running |-> {}, done |-> {}, hasError |-> FALSE,
     results |-> NoResults, heard |-> 0, cb |-> <<>>, escaped |-> NoErr,
     thrown |-> NoErr, cards |-> <<>>,
     sync |-> [op |-> "", zip |-> FALSE, threw |-> NoErr]]

\* no multiplyCards call yet
NoMultiplied == [called |-> FALSE, cards |-> <<>>, quantity |-> 0, out |-> <<>>]

\* no parseFieldKey call yet
NoFieldKey == [called |-> FALSE, key |-> <<>>, out |-> parseFieldKey(<<>>)]

\* no stripXML call yet
NoXml == [called |-> FALSE, pieces |-> <<>>, text |-> <<>>,
          stripped |-> [newText |-> <<>>, strippedParts |-> <<>>], applied |-> <<>>]

\* no CcsbReader constructed yet
NoReader == [constructed |-> FALSE, path |-> "", zip |-> "", loads |-> <<>>,
             reads |-> <<>>]

Init ==
    /\ _data = EmptyTree
    /\ _sources = <<>>
    /\ _overrides = <<>>
    /\ _loaded = {}
    /\ _loadedListeners = <<>>
    /\ _dirname = [r \in {} |-> ""]
    /\ each = [q \in {} |-> [length |-> 0, completed |-> 0, called |-> FALSE]]
    /\ pending = {}
    /\ ticks = <<>>
    /\ fired = <<>>
    /\ loadCb = <<>>
    /\ thrown = NoErr
    /\ log = {}
    /\ errs = <<>>
    /\ pc = "idle"
    /\ calls = <<>>
    /\ regs = <<>>
    /\ got = NoGet
    /\ pageRenderer = NoRenderer
    /\ pages = NoPages
    /\ rr = NoReadAndRender
    /\ multipliedCards = NoMultiplied
    /\ fieldKey = NoFieldKey
    /\ xml = NoXml
    /\ reader = NoReader

\* ------------------------------------------------------------------------
\* Adding sources
\* ------------------------------------------------------------------------
\* a variant that leaves the source as it is
SetDirnameNone(source, dirname) == _dirname
\* source._dirname = dirname
SetDirname(source, dirname) ==
    [r \in DOMAIN _dirname \cup {Ref(source, <<>>)} |->
        IF r = Ref(source, <<>>) THEN dirname ELSE _dirname[r]]

Added(op, source) ==
    /\ calls' = Append(calls, [op |-> op, src |-> source])
    /\ UNCHANGED <<_data, _loaded, _loadedListeners, each, pending, ticks, fired,
                   loadCb, thrown, log, errs, pc, regs, got, pageRenderer, pages, rr, multipliedCards, fieldKey, xml, reader>>

addOverride(source, dirname, max) ==
    /\ pc = "idle" /\ Len(calls) < max
    /\ _dirname' = SetDirname(source, dirname)
    /\ _overrides' = Append(_overrides, source)
    /\ UNCHANGED _sources
    /\ Added("addOverride", source)

\* a variant that adds at the back, as push does
unshiftAtBack(sources, source) == Append(sources, source)
unshift(sources, source) == <<source>> \o sources

addPrimary(source, dirname, max) ==
    /\ pc = "idle" /\ Len(calls) < max
    /\ _dirname' = SetDirname(source, dirname)
    /\ _sources' = unshift(_sources, source)
    /\ UNCHANGED _overrides
    /\ Added("addPrimary", source)

push(sources, source) == Append(sources, source)

addFallback(source, dirname, max) ==
    /\ pc = "idle" /\ Len(calls) < max
    /\ _dirname' = SetDirname(source, dirname)
    /\ _sources' = push(_sources, source)
    /\ UNCHANGED _overrides
    /\ Added("addFallback", source)

addDefaultFallback(max) ==
    /\ pc = "idle" /\ Len(calls) < max
    /\ _dirname' = SetDirname("DEFAULT_OPTIONS", "")
    /\ _sources' = push(_sources, "DEFAULT_OPTIONS")
    /\ UNCHANGED _overrides
    /\ Added("addDefaultFallback", "DEFAULT_OPTIONS")

\* ------------------------------------------------------------------------
\* Resolution passes
\* ------------------------------------------------------------------------
\* a variant with the overrides behind the other sources
ConcatOverridesLast(overrides, sources) ==
    [i \in 1..(Len(overrides) + Len(sources)) |->
        LET id == IF i <= Len(sources) THEN sources[i] ELSE overrides[i - Len(sources)]
        IN [ref |-> Ref(id, <<>>), entries |-> RawOf(id)]]
\* [].concat(this._overrides, this._sources)
Concat(overrides, sources) ==
    [i \in 1..(Len(overrides) + Len(sources)) |->
        LET id == IF i <= Len(overrides) THEN overrides[i] ELSE sources[i - Len(overrides)]
        IN [ref |-> Ref(id, <<>>), entries |-> RawOf(id)]]

SyncPass ==
    consumeSync([data |-> _data, heap |-> _dirname, err |-> NoErr, log |-> log],
                <<>>, Concat(_overrides, _sources))

Returns(st) ==
    /\ _data' = st.data
    /\ _dirname' = st.heap
    /\ thrown' = st.err
    /\ log' = st.log

loadSync ==
    /\ pc = "idle"
    /\ pc' = "loadSync"
    /\ Returns(SyncPass)
    /\ UNCHANGED <<_sources, _overrides, _loaded, _loadedListeners, each, pending,
                   ticks, fired, loadCb, errs, calls, regs, got, pageRenderer, pages, rr, multipliedCards, fieldKey, xml, reader>>

Now ==
    [data |-> _data, heap |-> _dirname, loaded |-> _loaded,
     listeners |-> _loadedListeners, fired |-> fired, each |-> each,
     pending |-> pending, ticks |-> ticks, loadCb |-> loadCb, log |-> log,
     errs |-> errs]

Becomes(st) ==
    /\ _data' = st.data
    /\ _dirname' = st.heap
    /\ _loaded' = st.loaded
    /\ _loadedListeners' = st.listeners
    /\ fired' = st.fired
    /\ each' = st.each
    /\ pending' = st.pending
    /\ ticks' = st.ticks
    /\ loadCb' = st.loadCb
    /\ log' = st.log
    /\ errs' = st.errs

load ==
    /\ pc = "idle"
    /\ pc' = "load"
    /\ Becomes(consume(Now, <<>>, Concat(_overrides, _sources)))
    /\ UNCHANGED <<_sources, _overrides, thrown, calls, regs, got, pageRenderer,
                   pages, rr, multipliedCards, fieldKey, xml, reader>>

\* the callback at the head of the nextTick queue runs
RunCallback(st, tick) ==
    IF tick.k = "field"
    THEN fieldCallback(st, tick.path, tick.field, tick.dirname, tick.r)
    ELSE [st EXCEPT !.fired = Invoke(@, <<tick.cb>>, tick.path, FALSE,
                                     Subtree(st.data, tick.path))]

RunTick ==
    /\ ticks # <<>>
    /\ Becomes(RunCallback([Now EXCEPT !.ticks = Tail(ticks)], Head(ticks)))
    /\ UNCHANGED <<_sources, _overrides, thrown, pc, calls, regs, got,
                   pageRenderer, pages, rr, multipliedCards, fieldKey, xml, reader>>

\* a file read completes; the nextTick queue is empty by then
ReadDone ==
    /\ ticks = <<>>
    /\ \E task \in pending :
          Becomes(fieldCallback([Now EXCEPT !.pending = @ \ {task}],
                                task.path, task.field, task.dirname,
                                processFieldBuffer(task.field, task.dirname,
                                                   ReadOf(task.field, task.dirname))))
    /\ UNCHANGED <<_sources, _overrides, thrown, pc, calls, regs, got,
                   pageRenderer, pages, rr, multipliedCards, fieldKey, xml, reader>>

\* onceLoaded(fullFieldName, callback), the callback being the next fresh one
Queue(listeners, fullFieldName, cb) ==
    IF HasListeners(listeners, fullFieldName)
    THEN [i \in 1..Len(listeners) |->
            IF listeners[i].field = fullFieldName
            THEN [listeners[i] EXCEPT !.cbs = Append(@, cb)]
            ELSE listeners[i]]
    ELSE Append(listeners, [field |-> fullFieldName, cbs |-> <<cb>>])

\* a variant that calls back at once when the field is loaded
onceLoadedByNow(fullFieldName, cb) ==
    /\ regs' = Append(regs, [cb |-> cb, field |-> fullFieldName,
                             loaded |-> fullFieldName \in _loaded,
                             ended |-> loadCb # <<>>])
    /\ IF fullFieldName \in _loaded
       THEN /\ fired' = Invoke(fired, <<cb>>, fullFieldName, FALSE,
                               Subtree(_data, fullFieldName))
            /\ UNCHANGED <<_loadedListeners, ticks>>
       ELSE /\ _loadedListeners' = Queue(_loadedListeners, fullFieldName, cb)
            /\ UNCHANGED <<ticks, fired>>
onceLoadedBy(fullFieldName, cb) ==
    /\ regs' = Append(regs, [cb |-> cb, field |-> fullFieldName,
                             loaded |-> fullFieldName \in _loaded,
                             ended |-> loadCb # <<>>])
    /\ IF fullFieldName \in _loaded
       THEN /\ ticks' = Append(ticks, Tick("once", fullFieldName, NoField, "",
                                           Done(Blank), cb))
            /\ UNCHANGED <<_loadedListeners, fired>>
       ELSE /\ _loadedListeners' = Queue(_loadedListeners, fullFieldName, cb)
            /\ UNCHANGED <<ticks, fired>>

onceLoaded(fullFieldName) ==
    /\ Len(regs) < MaxListeners
    /\ onceLoadedBy(fullFieldName, Len(regs) + 1)
    /\ UNCHANGED <<_data, _sources, _overrides, _loaded, _dirname, each, pending,
                   loadCb, thrown, log, errs, pc, calls, got, pageRenderer, pages, rr, multipliedCards, fieldKey, xml, reader>>

\* get(fullFieldName), the path being fullFieldName.split("/").slice(1)
get(fullFieldName) ==
    /\ got' = Got(fullFieldName, getFrom(_data, fullFieldName, 1, At(<<>>)))
    /\ UNCHANGED <<_data, _sources, _overrides, _loaded, _loadedListeners, _dirname,
                   each, pending, ticks, fired, loadCb, thrown, log, errs, pc, calls,
                   regs, pageRenderer, pages, rr, multipliedCards, fieldKey, xml, reader>>

\* ------------------------------------------------------------------------
\* Pages
\* ------------------------------------------------------------------------
MaxCards == 5

\* page viewports: the default one, small ones, one that is filled exactly,
\* and ones whose print margin leaves no room
Viewport(width, height, cardWidth, cardHeight, printMargin) ==
    [width |-> width, height |-> height, cardWidth |-> cardWidth,
     cardHeight |-> cardHeight, printMargin |-> printMargin]
Viewports ==
    {Viewport(612, 792, 180, 252, 0), Viewport(10, 7, 3, 3, 1),
     Viewport(11, 9, 3, 2, 0), Viewport(6, 4, 3, 2, 0), Viewport(5, 5, 6, 2, 0),
     Viewport(10, 10, 3, 3, 6), Viewport(10, 20, 3, 2, 8), Viewport(10, 10, 3, 3, 8)}
Strategies == {"evenSpacing", "tight", "undefined"}

\* the rendered cards and their backs
Cards(n) == [i \in 1..n |-> <<"front", i>>]
Backs(n) == [i \in 1..n |-> <<"back", i>>]

PageUnchanged ==
    UNCHANGED <<_data, _sources, _overrides, _loaded, _loadedListeners, _dirname,
                each, pending, ticks, fired, loadCb, thrown, log, errs, pc, calls,
                regs, got, rr, multipliedCards, fieldKey, xml, reader>>

PageRenderer(viewport, strategy, reversed) ==
    /\ pageRenderer = NoRenderer
    /\ pageRenderer' = constructor(viewport, strategy, reversed)
    /\ UNCHANGED pages
    /\ PageUnchanged

render(cards, cardBacks) ==
    /\ pageRenderer.made
    /\ pages' = renderLoop(pageRenderer, cards, cardBacks, 0, FALSE,
                           Rendering("render", cards, cardBacks))
    /\ UNCHANGED pageRenderer
    /\ PageUnchanged

renderConcatenated(cards, cardBacks) ==
    /\ pageRenderer.made
    /\ pages' = renderLoop(pageRenderer, cards, cardBacks, 0, TRUE,
                           Rendering("renderConcatenated", cards, cardBacks))
    /\ UNCHANGED pageRenderer
    /\ PageUnchanged

\* ------------------------------------------------------------------------
\* Specifications
\* ------------------------------------------------------------------------
\* the layering of sources: every add operation, then one pass of either kind
Next ==
    \/ \E in \in LayerInputs : addOverride(in[1], in[2], MaxAdds)
    \/ \E in \in LayerInputs : addPrimary(in[1], in[2], MaxAdds)
    \/ \E in \in LayerInputs : addFallback(in[1], in[2], MaxAdds)
    \/ addDefaultFallback(MaxAdds)
    \/ loadSync
    \/ load
    \/ RunTick
    \/ ReadDone

Spec == Init /\ [][Next]_vars

\* sources with assets and clashes, resolved by one pass of either kind
NextLoad ==
    \/ \E in \in LoadInputs : addPrimary(in[1], in[2], MaxLoadAdds)
    \/ loadSync
    \/ load
    \/ RunTick
    \/ ReadDone

SpecLoad == Init /\ [][NextLoad]_vars

\* a concurrent pass with callers that wait for fields
NextSignal ==
    \/ \E in \in SignalInputs : addPrimary(in[1], in[2], MaxLoadAdds)
    \/ \E p \in SignalPaths : onceLoaded(p)
    \/ load
    \/ RunTick
    \/ ReadDone

SpecSignal == Init /\ [][NextSignal]_vars

\* the same, with an event loop that runs what is queued and completes reads
SpecSignalFair == SpecSignal /\ WF_vars(RunTick) /\ WF_vars(ReadDone)

\* the rows of a card table and config mappings, resolved by one pass
NextCards ==
    \/ \E in \in CardInputs : addPrimary(in[1], in[2], MaxLoadAdds)
    \/ loadSync
    \/ load
    \/ RunTick
    \/ ReadDone

SpecCards == Init /\ [][NextCards]_vars

\* option mappings and a card row, resolved by one pass and read with get
GetInputs == {<<"U1", "">>, <<"G1", "/cfg">>, <<"K2", "/cfg">>}
GetPaths ==
    {<<"a">>, <<"a", "title">>, <<"query">>, <<"query", "title">>,
     <<"query", "multiples">>, <<"query", "multiples", "x">>, <<"renderReversed">>,
     <<"viewports", "page">>, <<"note">>, <<"note", "x">>, <<"count">>,
     <<"count", "x">>, <<"data", "buffer">>, <<"data", "dims">>, <<"art", "dims">>}

NextGet ==
    \/ \E in \in GetInputs : addPrimary(in[1], in[2], MaxLoadAdds)
    \/ loadSync
    \/ load
    \/ RunTick
    \/ ReadDone
    \/ \E p \in GetPaths : get(p)

SpecGet == Init /\ [][NextGet]_vars

\* a concurrent pass over nested objects, with callers that wait for them
SubtreeInputs == {<<"N1", "/cfg">>, <<"N2", "/cfg">>}
SubtreePaths ==
    {<<"template">>, <<"fonts">>, <<"fonts", "title">>, <<"fonts", "body">>,
     <<"fonts", "extra">>, <<"fonts", "mode">>, <<"fonts", "sizes">>,
     <<"fonts", "sizes", "big">>, <<"fonts", "sizes", "art">>}
WaitedPaths == {<<"fonts">>, <<"fonts", "sizes">>}

NextSubtree ==
    \/ \E in \in SubtreeInputs : addPrimary(in[1], in[2], MaxLoadAdds)
    \/ \E p \in WaitedPaths : onceLoaded(p)
    \/ load
    \/ RunTick
    \/ ReadDone

SpecSubtree == Init /\ [][NextSubtree]_vars

\* sources with different contexts that share nested objects
ContextInputs == {<<"N1", "/cfg">>, <<"N3", ReaderFn>>, <<"U2", "">>}
ContextPaths ==
    {<<"template">>, <<"a">>, <<"b">>, <<"fonts">>, <<"fonts", "title">>,
     <<"fonts", "mode">>, <<"fonts", "back">>, <<"fonts", "sizes">>,
     <<"fonts", "sizes", "big">>, <<"fonts", "sizes", "art">>,
     <<"fonts", "sizes", "logo">>}

NextContext ==
    \/ \E in \in ContextInputs : addOverride(in[1], in[2], MaxLoadAdds)
    \/ \E in \in ContextInputs : addPrimary(in[1], in[2], MaxLoadAdds)
    \/ \E in \in ContextInputs : addFallback(in[1], in[2], MaxLoadAdds)
    \/ loadSync
    \/ load
    \/ RunTick
    \/ ReadDone

SpecContext == Init /\ [][NextContext]_vars

\* keys of every kind of leaf, resolved by one pass of either kind
NextLeaf ==
    \/ \E in \in LeafInputs : addPrimary(in[1], in[2], MaxLoadAdds)
    \/ loadSync
    \/ load
    \/ RunTick
    \/ ReadDone

SpecLeaf == Init /\ [][NextLeaf]_vars

\* a page renderer and what it renders
NextPage ==
    \/ \E viewport \in Viewports : \E strategy \in Strategies :
          \E reversed \in BOOLEAN : PageRenderer(viewport, strategy, reversed)
    \/ \E n \in 0..MaxCards : \E cardBacks \in {NoBacks, Backs(n)} :
          render(Cards(n), cardBacks)
    \/ \E n \in 0..MaxCards : \E cardBacks \in {NoBacks, Backs(n)} :
          renderConcatenated(Cards(n), cardBacks)

SpecPage == Init /\ [][NextPage]_vars

\* ------------------------------------------------------------------------
\* What a source says about a path, read off the raw mapping
\* ------------------------------------------------------------------------
RECURSIVE FieldAt(_, _, _)
FieldAtIn(conv, path) ==
    IF conv.err # NoErr \/ ~Defines(conv, Head(path)) THEN NoField
    ELSE IF Len(path) = 1 THEN FieldOf(conv, Head(path))
    ELSE IF ~isConsumable(FieldOf(conv, Head(path))) THEN NoField
    ELSE FieldAt(FieldOf(conv, Head(path)).ref, FieldOf(conv, Head(path)).value.o,
                 Tail(path))
FieldAt(ref, entries, path) == FieldAtIn(convertEntries(ref, entries, 1, <<>>), path)

SourceField(id, p) == FieldAt(Ref(id, <<>>), RawOf(id), p)
SourceDefines(id, p) == SourceField(id, p).name # ""
SourceTerminal(id, p) == SourceDefines(id, p) /\ ~isConsumable(SourceField(id, p))
SourceNested(id, p) == SourceDefines(id, p) /\ isConsumable(SourceField(id, p))

\* the leaf a source gives for a path when it is the one that is used
Gives(id, p) == processFieldSync(SourceField(id, p), _dirname[Ref(id, <<>>)]).result

\* how a pass ended
SyncEnded == pc = "loadSync"
AsyncEnded == pc = "load" /\ loadCb # <<>>
PassEnded == SyncEnded \/ AsyncEnded
PassFailed == \/ SyncEnded /\ thrown # NoErr
              \/ AsyncEnded /\ loadCb[1] # NoErr
AsyncQuiet == pc = "load" /\ pending = {} /\ ticks = <<>>

\* the paths of the option mappings, and two that no mapping has
LayerPaths ==
    {<<"a">>, <<"b">>, <<"fontRenderMode">>, <<"tags">>, <<"fonts">>,
     <<"fonts", "title">>, <<"fonts", "body">>, <<"query">>, <<"query", "title">>,
     <<"title">>, <<"a", "title">>}

\* ------------------------------------------------------------------------
\* C1
\* ------------------------------------------------------------------------
OverrideOver(i, p) ==
    /\ SourceTerminal(_overrides[i], p)
    /\ \A j \in 1..(i - 1) : ~SourceDefines(_overrides[j], p)
    /\ \E k \in 1..Len(_sources) : SourceTerminal(_sources[k], p)

\* C1: once a pass has ended, a field that the first override source to define
\* it gives a value, and that a primary or fallback source gives a value too,
\* holds the leaf of the override source, and the pass has not failed.
C1_OverrideWins ==
    PassEnded =>
        \A p \in LayerPaths : \A i \in 1..Len(_overrides) :
            OverrideOver(i, p) =>
                /\ ~PassFailed
                /\ p \in DOMAIN _data
                /\ _data[p] = Gives(_overrides[i], p)

C1_Witness ==
    /\ PassEnded
    /\ \E p \in LayerPaths : \E i \in 1..Len(_overrides) :
          /\ OverrideOver(i, p)
          /\ \E k \in 1..Len(_sources) :
                /\ SourceTerminal(_sources[k], p)
                /\ Gives(_sources[k], p) # Gives(_overrides[i], p)

\* ------------------------------------------------------------------------
\* C2
\* ------------------------------------------------------------------------
RECURSIVE SrcsOf(_, _)
SrcsOf(cs, ops) ==
    IF cs = <<>> THEN <<>>
    ELSE (IF Head(cs).op \in ops THEN <<Head(cs).src>> ELSE <<>>) \o SrcsOf(Tail(cs), ops)

Reverse(s) == [i \in 1..Len(s) |-> s[Len(s) + 1 - i]]

\* overrides, primaries newest first, fallbacks oldest first, the default last
ClaimedOrder ==
    SrcsOf(calls, {"addOverride"}) \o Reverse(SrcsOf(calls, {"addPrimary"}))
        \o SrcsOf(calls, {"addFallback"}) \o SrcsOf(calls, {"addDefaultFallback"})

\* the same, with the default source among the fallbacks where its call was
CallOrder ==
    SrcsOf(calls, {"addOverride"}) \o Reverse(SrcsOf(calls, {"addPrimary"}))
        \o SrcsOf(calls, {"addFallback", "addDefaultFallback"})

DefinedIn(order, p) == \E i \in 1..Len(order) : SourceDefines(order[i], p)
FirstDefiner(order, p) ==
    order[CHOOSE i \in 1..Len(order) :
            /\ SourceDefines(order[i], p)
            /\ \A j \in 1..(i - 1) : ~SourceDefines(order[j], p)]

HoldsFrom(id, p) ==
    /\ p \in DOMAIN _data
    /\ IF SourceTerminal(id, p) THEN _data[p] = Gives(id, p) ELSE _data[p].kind = "obj"

ResolvedInOrder(order) ==
    PassEnded =>
        \A p \in LayerPaths :
            IF DefinedIn(order, p) THEN HoldsFrom(FirstDefiner(order, p), p)
            ELSE p \notin DOMAIN _data

\* C2 as stated: after any sequence of add calls and a pass, every field holds
\* what the first source that defines it gives, the sources taken in the
\* order: overrides, primaries newest first, fallbacks oldest first, and the
\* built-in default source behind every fallback.
C2_DefaultLast == ResolvedInOrder(ClaimedOrder)

\* C2 amended: the same, but the built-in default source stands among the
\* fallback sources at the place of its addDefaultFallback call: it is behind
\* the fallbacks added before that call and ahead of those added after it.
C2_DefaultInCallOrder == ResolvedInOrder(CallOrder)

C2_Witness ==
    /\ PassEnded
    /\ \E i \in 1..Len(calls) : \E j \in (i + 1)..Len(calls) :
          /\ calls[i].op = "addDefaultFallback"
          /\ calls[j].op = "addFallback"
          /\ SourceTerminal(calls[j].src, <<"fontRenderMode">>)
    /\ \A k \in 1..Len(calls) : calls[k].op \in {"addDefaultFallback", "addFallback"}
    /\ _data[<<"fontRenderMode">>] = Gives("DEFAULT_OPTIONS", <<"fontRenderMode">>)

\* ------------------------------------------------------------------------
\* C3
\* ------------------------------------------------------------------------
\* loadSync on the sources of the state, from the empty tree
SyncFromScratch ==
    consumeSync([data |-> EmptyTree, heap |-> _dirname, err |-> NoErr, log |-> {}],
                <<>>, Concat(_overrides, _sources))

\* a field that has a file read
Reads(field) == shouldLoadBuffer(field) /\ field.properties \cap {"uint", "number"} = {}
ReadsSucceed(entries) ==
    \A e \in entries : Reads(e.field) => ReadOf(e.field, e.dirname).res = "ok"

SameOutcome(sync) ==
    /\ (sync.err = NoErr) <=> (loadCb[1] = NoErr)
    /\ sync.err = NoErr => sync.data = _data

SameAsSync(sync) == ReadsSucceed(sync.log) => SameOutcome(sync)

\* C3: when load has ended and nothing of it is in flight, and every file read
\* of the sources succeeded, loadSync on the same sources succeeds exactly if
\* load did, and then its merged tree equals the one load built.
C3_SameTree ==
    (AsyncEnded /\ AsyncQuiet /\ ReadsSucceed(log)) => SameAsSync(SyncFromScratch)

\* ------------------------------------------------------------------------
\* C4
\* ------------------------------------------------------------------------
LoadPaths ==
    {<<"t">>, <<"n">>, <<"n", "x">>, <<"n", "y">>, <<"n", "z">>, <<"h">>, <<"g">>,
     <<"i">>, <<"d">>, <<"e">>, <<"q">>, <<"u">>, <<"m">>, <<"m", "k">>, <<"w">>}

AllSources == _overrides \o _sources

\* one source has a nested mapping at the path, another a scalar or an array
ClashAt(p) ==
    \E i \in 1..Len(AllSources) : \E j \in 1..Len(AllSources) :
        SourceNested(AllSources[i], p) /\ SourceTerminal(AllSources[j], p)

PassError == IF SyncEnded THEN thrown ELSE loadCb[1]

\* C4 as stated: a pass over sources that clash at a path ends, in load and
\* in loadSync and in either order of the sources, with the
\* inconsistent-nesting error of that path.
C4_NestingError ==
    \A p \in LoadPaths :
        (ClashAt(p) /\ PassEnded) => PassError = Err("InconsistentNesting", p)

\* C4 amended: a pass over sources that clash at a path fails, in load and in
\* loadSync and in either order of the sources, and at no time holds the tree
\* a value for that path; the error is the inconsistent-nesting error of the
\* path unless an error of another field ended the pass before.
C4_NestingFails ==
    \A p \in LoadPaths :
        ClashAt(p) =>
            /\ p \notin DOMAIN _data
            /\ PassEnded =>
                  /\ PassFailed
                  /\ PassError.type = "InconsistentNesting" => PassError.at = p

C4_Witness ==
    /\ AsyncEnded /\ AsyncQuiet
    /\ ClashAt(<<"n">>)
    /\ PassError = Err("InconsistentNesting", <<"n">>)
    /\ SourceNested(_sources[1], <<"n">>)

\* ------------------------------------------------------------------------
\* C5
\* ------------------------------------------------------------------------
\* C5: when the pass has failed, the tree of the Options object holds none of
\* the fields of the pass: it is the tree from before the pass, the empty one.
C5_NoPartialTree == PassFailed => _data = EmptyTree

\* ------------------------------------------------------------------------
\* C9
\* ------------------------------------------------------------------------
\* C9: load's callback is invoked at most once, and once load is through
\* exactly once; as soon as an error is raised it has been invoked with the
\* first error raised, whatever is raised or completes later; without an
\* error it is invoked without one.
C9_OneCallback ==
    /\ Len(loadCb) <= 1
    /\ errs # <<>> => loadCb = <<errs[1]>>
    /\ (loadCb # <<>> /\ errs = <<>>) => loadCb = <<NoErr>>
    /\ AsyncQuiet => Len(loadCb) = 1

C9_Witness ==
    /\ AsyncQuiet
    /\ Len(errs) >= 2
    /\ errs[2] # errs[1]
    /\ loadCb = <<errs[1]>>
    /\ \E e \in log : e.r.err = NoErr

\* ------------------------------------------------------------------------
\* C10
\* ------------------------------------------------------------------------
FailedRead(e) == Reads(e.field) /\ ReadOf(e.field, e.dirname).res # "ok"

\* the field resolved to the placeholder image
Absorbed(e) ==
    /\ e.r.err = NoErr
    /\ e.r.result.buffer = PLACEHOLDER_PNG
    /\ e.r.result.dims = imageSize(PLACEHOLDER_PNG)
    /\ e.path \in DOMAIN _data
    /\ _data[e.path] = e.r.result

AssetLoadError(e) ==
    /\ e.r.err.type \in {"ReadError", "ReturnedNull"}
    /\ e.path \notin DOMAIN _data

\* C10 as stated: a field whose file read failed, in load or loadSync and with
\* a directory or a reader function, resolves to the placeholder image if it
\* declares img, and fails with an asset-load error if it does not.
C10_AbsorbedIffImg ==
    \A e \in log :
        FailedRead(e) =>
            IF "img" \in e.field.properties THEN Absorbed(e) ELSE AssetLoadError(e)

\* C10 amended: the same, but a field that declares font next to img does not
\* resolve: the placeholder image takes the place of its bytes and then fails
\* to load as a font.
C10_AbsorbedUnlessFont ==
    \A e \in log :
        FailedRead(e) =>
            IF "img" \notin e.field.properties THEN AssetLoadError(e)
            ELSE IF "font" \notin e.field.properties THEN Absorbed(e)
            ELSE e.r.err.type = "FontLoad" /\ e.path \notin DOMAIN _data

C10_Witness ==
    /\ pc = "load"
    /\ \E e \in log :
          /\ FailedRead(e) /\ IsFunction(e.dirname)
          /\ e.field.properties = {"img"}
          /\ Absorbed(e)
    /\ \E e \in log :
          /\ FailedRead(e) /\ IsFunction(e.dirname)
          /\ "img" \notin e.field.properties
          /\ AssetLoadError(e)

\* ------------------------------------------------------------------------
\* C6
\* ------------------------------------------------------------------------
Times(cb) == Cardinality({i \in 1..Len(fired) : fired[i].cb = cb})
Registered(cb) == cb <= Len(regs)

\* registered before load's pass ended
Early(cb) == Registered(cb) /\ ~regs[cb].ended

\* every invocation so far is one of the two kinds: the value stored at a
\* path that is loaded, or the absence signal once load's pass has ended
FiredRight ==
    \A i \in 1..Len(fired) :
        IF fired[i].absent THEN loadCb # <<>>
        ELSE /\ fired[i].field \in _loaded
             /\ fired[i].value = Subtree(_data, fired[i].field)

\* the absence signal goes to listeners of paths that are not loaded by then
AbsentUnloaded ==
    \A i \in (Len(fired) + 1)..Len(fired') :
        fired'[i].absent => fired'[i].field \notin _loaded'

OnceEach ==
    /\ \A cb \in 1..Len(regs) : Times(cb) <= 1
    /\ FiredRight
    /\ (AsyncEnded /\ ticks = <<>>) => \A cb \in 1..Len(regs) : Early(cb) => Times(cb) = 1

\* C6: no callback is invoked twice; an invocation carries the value stored at
\* its path, which is loaded, or else the absence signal, given at the end of
\* the pass for a path not loaded by then; and every callback registered
\* before the end of a pass that is under way is invoked in the end, at the
\* latest when the pass has ended and the queued ticks have run.
C6_ExactlyOnce ==
    /\ []OnceEach
    /\ [][AbsentUnloaded]_vars
    /\ <>[](pc = "load" => \A cb \in 1..Len(regs) : Early(cb) => Times(cb) = 1)

C6_Witness ==
    /\ AsyncEnded /\ loadCb[1] # NoErr
    /\ Len(regs) = 2 /\ Early(1) /\ Early(2)
    /\ \E i \in 1..Len(fired) : fired[i].absent
    /\ \E i \in 1..Len(fired) : ~fired[i].absent

\* ------------------------------------------------------------------------
\* C7
\* ------------------------------------------------------------------------
Cbs(entries) == [i \in 1..Len(entries) |-> entries[i].cb]
NewFired == SubSeq(fired', Len(fired) + 1, Len(fired'))
NewFiredFor(P) == SelectSeq(NewFired, LAMBDA e : e.field = P)
QueueOf(listeners, P) == IF HasListeners(listeners, P) THEN ListenersOf(listeners, P) ELSE <<>>

\* the step in which path P becomes loaded
FiresQueue(P) ==
    (P \notin _loaded /\ P \in _loaded') =>
        /\ Len(fired') >= Len(fired) /\ SubSeq(fired', 1, Len(fired)) = fired
        /\ Cbs(NewFiredFor(P)) = QueueOf(_loadedListeners, P)
        /\ \A i \in 1..Len(NewFiredFor(P)) :
              /\ ~NewFiredFor(P)[i].absent
              /\ NewFiredFor(P)[i].value = Subtree(_data', P)
        /\ ~HasListeners(_loadedListeners', P)

NoQueueOnceLoaded ==
    /\ \A P \in _loaded : ~HasListeners(_loadedListeners, P)
    /\ \A i \in 1..Len(fired) : \A j \in 1..Len(fired) :
          fired[i].cb = fired[j].cb => i = j

\* C7: in the step in which a path becomes loaded, the callbacks queued for it
\* are invoked with its value, each once and in the order of their
\* registration, and its queue is gone; a loaded path has no queue, and no
\* callback is invoked a second time.
C7_QueueInOrder ==
    /\ [][\A P \in SignalPaths : FiresQueue(P)]_vars
    /\ []NoQueueOnceLoaded

C7_Witness ==
    /\ Len(fired) = 2
    /\ fired[1].cb = 1 /\ fired[2].cb = 2
    /\ fired[1].field = fired[2].field
    /\ ~fired[1].absent /\ ~fired[2].absent
    /\ fired[1].field \in _loaded
    /\ ~HasListeners(_loadedListeners, fired[1].field)

\* ------------------------------------------------------------------------
\* C8
\* ------------------------------------------------------------------------
\* a call of onceLoaded: nothing is invoked in it
Registers ==
    regs' # regs =>
        /\ fired' = fired
        /\ IF regs'[Len(regs')].field \in _loaded
           THEN /\ Len(ticks') = Len(ticks) + 1
                /\ ticks'[Len(ticks')].k = "once"
                /\ ticks'[Len(ticks')].cb = Len(regs')
                /\ _loadedListeners' = _loadedListeners
           ELSE /\ ticks' = ticks
                /\ QueueOf(_loadedListeners', regs'[Len(regs')].field)
                      = Append(QueueOf(_loadedListeners, regs'[Len(regs')].field),
                               Len(regs'))

\* the tick of a callback registered for a loaded path
TickCalls ==
    (ticks # <<>> /\ Head(ticks).k = "once" /\ regs' = regs /\ pc' = pc) =>
        fired' = Append(fired, [cb |-> Head(ticks).cb, field |-> Head(ticks).path,
                                absent |-> FALSE,
                                value |-> Subtree(_data, Head(ticks).path)])

\* C8: a call of onceLoaded invokes nothing; for a path that is loaded it
\* queues a tick, and that tick, when it runs, invokes the callback with the
\* value stored at the path; for a path that is not loaded it puts the
\* callback at the end of the path's queue.
C8_NeverSynchronous == [][Registers /\ TickCalls]_vars

C8_Witness ==
    /\ \E cb \in 1..Len(regs) :
          /\ regs[cb].loaded
          /\ \E i \in 1..Len(fired) :
                /\ fired[i].cb = cb /\ ~fired[i].absent
                /\ fired[i].value = Subtree(_data, regs[cb].field)
                /\ fired[i].value # EmptyTree
    /\ \E cb \in 1..Len(regs) : ~regs[cb].loaded

\* ------------------------------------------------------------------------
\* C11
\* ------------------------------------------------------------------------
\* the raw value of a uint or number field is not a numeral
Unparsable(field) ==
    \/ "uint" \in field.properties /\ parseInt(field.value) = "NaN"
    \/ "number" \in field.properties /\ "uint" \notin field.properties
          /\ parseFloat(field.value) = "NaN"

\* C11: a terminal field that declares uint or number and whose raw value is
\* not a numeral makes the pass fail, in load and in loadSync: its processing
\* gives an error, no value is stored for it, and the pass ends with an error.
C11_NumericParseError ==
    \A e \in log :
        Unparsable(e.field) =>
            /\ e.r.err # NoErr
            /\ e.path \notin DOMAIN _data
            /\ PassEnded => PassFailed

\* ------------------------------------------------------------------------
\* C12
\* ------------------------------------------------------------------------
\* String(n) of the non-negative integers the model's numerals parse to
NonNegativeIntegers == {"0", "2", "7"}

\* C12: a field that declares uint, whose raw value is a numeral and which
\* resolved holds a non-negative integer, and a raw value that denotes a
\* negative number is in no resolved uint field.
C12_UintNonNegative ==
    \A e \in log :
        ("uint" \in e.field.properties /\ ~Unparsable(e.field)
            /\ e.path \in DOMAIN _data) =>
            /\ _data[e.path].num \in NonNegativeIntegers
            /\ e.field.value # Str("-5")

\* ------------------------------------------------------------------------
\* C13
\* ------------------------------------------------------------------------
\* the cells of a row under the columns headed by the key, in column order
RECURSIVE CellsUnder(_, _, _, _)
CellsUnder(header, row, key, i) ==
    IF i > Len(header) THEN <<>>
    ELSE (IF header[i] = key THEN <<Cell(row, i)>> ELSE <<>>)
            \o CellsUnder(header, row, key, i + 1)

Occurrences(header, key) == Cardinality({i \in 1..Len(header) : header[i] = key})

\* the card rows of the model: the table and the row a source was made from
TableOf(id) == IF id = "T1" THEN TagsCsv ELSE CardsCsv
RowOf(id) == CASE id = "K1" -> 2 [] id = "K2" -> 3 [] id = "K3" -> 4 [] id = "T1" -> 2
CardRows == {"K1", "K2", "K3", "T1"}

\* the source whose value the pass uses for a top-level field
UsedSource(name) == FirstDefiner(AllSources, <<name>>)

\* a key name[] that heads several columns of the table of the source used
RepeatedArrayKey(name) ==
    /\ DefinedIn(AllSources, <<name>>)
    /\ UsedSource(name) \in CardRows
    /\ Occurrences(TableOf(UsedSource(name))[1], <<name, "[]">>) > 1

FieldKeys(entries) ==
    {i \in 1..Len(entries) :
        /\ ~IsPrivateKey(entries[i].key)
        /\ entries[i].val.t # "undefined"
        /\ parseFieldKey(entries[i].key).err = NoErr}

SameName(entries, i, j) ==
    parseFieldKey(entries[i].key).name = parseFieldKey(entries[j].key).name

\* two keys of the mapping parse to one field name, and not both say array
DuplicateField(entries) ==
    \E i \in FieldKeys(entries) : \E j \in FieldKeys(entries) :
        /\ i < j /\ SameName(entries, i, j)
        /\ ~(parseFieldKey(entries[i].key).array /\ parseFieldKey(entries[j].key).array)

\* C14: a pass ends with the duplicate-field error exactly if one of its
\* sources has two keys that parse to the same field name and are not both
\* array-valued; keys of an array-valued field never raise the error.
C14_DuplicateUnlessArray ==
    PassEnded =>
        ((PassFailed /\ PassError.type = "Duplicate")
            <=> \E i \in 1..Len(AllSources) : DuplicateField(RawOf(AllSources[i])))

\* ------------------------------------------------------------------------
\* C15
\* ------------------------------------------------------------------------
\* the path names a node of the tree or a property of a resolved asset
Present(data, q) ==
    \/ q \in DOMAIN data
    \/ /\ q # <<>> /\ Parent(q) \in DOMAIN data
       /\ HasProp(data[Parent(q)], q[Len(q)])

Prefixes(p) == {SubSeq(p, 1, k) : k \in 1..Len(p)}

\* the value at a path that is present
ValueAt(data, q) == IF q \in DOMAIN data THEN At(q) ELSE Prop(q)

\* a get call has just returned or thrown
GetCalled == got' # got

FalsyAbove(data, p) ==
    \E q \in Prefixes(p) : q # p /\ q \in DOMAIN data /\ FalsyNode(data[q])

Fits(viewport) ==
    /\ viewport.cardWidth <= pageWidth(viewport)
    /\ viewport.cardHeight <= pageHeight(viewport)

FloorCapacity(viewport) ==
    (pageWidth(viewport) \div viewport.cardWidth)
        * (pageHeight(viewport) \div viewport.cardHeight)

Constructed == pageRenderer # NoRenderer

\* C16: the constructor throws for every viewport into whose printable area
\* no card fits, a negative printable width or height included; when it
\* returns, the capacity is floor(pageWidth / cardWidth) times
\* floor(pageHeight / cardHeight) and at least 1.
C16_RejectsUnfit ==
    Constructed =>
        IF Fits(pageRenderer.viewport)
        THEN /\ pageRenderer.made
             /\ pageRenderer._capacity = FloorCapacity(pageRenderer.viewport)
             /\ pageRenderer._capacity >= 1
        ELSE ~pageRenderer.made /\ pageRenderer.err = Err("CannotFit", <<>>)

\* ------------------------------------------------------------------------
\* C17
\* ------------------------------------------------------------------------
Lt(a, b) == ~Leq(b, a)

\* the cell of a placeholder, as it is drawn mirrored or not
Left(ph, reversed) == cellX(ph, reversed)
Right(ph, reversed) == Plus(cellX(ph, reversed), Whole(pageRenderer.viewport.cardWidth))
Top(ph) == ph.y
Bottom(ph) == Plus(ph.y, Whole(pageRenderer.viewport.cardHeight))

WithinMargins(ph, reversed) ==
    /\ Leq(Whole(pageRenderer.viewport.printMargin), Left(ph, reversed))
    /\ Leq(Right(ph, reversed),
           Whole(pageRenderer.viewport.width - pageRenderer.viewport.printMargin))
    /\ Leq(Whole(pageRenderer.viewport.printMargin), Top(ph))
    /\ Leq(Bottom(ph),
           Whole(pageRenderer.viewport.height - pageRenderer.viewport.printMargin))

Overlap(a, b, reversed) ==
    /\ Lt(Left(a, reversed), Right(b, reversed))
    /\ Lt(Left(b, reversed), Right(a, reversed))
    /\ Lt(Top(a), Bottom(b))
    /\ Lt(Top(b), Bottom(a))

CellIndices == 1..Len(pageRenderer._placeholders)

\* C17: the cells of a renderer that was constructed, with either strategy
\* and drawn mirrored or not, lie within the sheet at least printMargin from
\* each of its edges, and no two of them overlap.
C17_CellsApartWithinMargins ==
    pageRenderer.made =>
        \A reversed \in BOOLEAN :
            /\ \A i \in CellIndices :
                  WithinMargins(pageRenderer._placeholders[i], reversed)
            /\ \A i \in CellIndices : \A j \in CellIndices :
                  i # j => ~Overlap(pageRenderer._placeholders[i],
                                    pageRenderer._placeholders[j], reversed)

C17_Witness ==
    /\ pageRenderer.made
    /\ Len(pageRenderer._placeholders) >= 2
    /\ pageRenderer._placeholders[1].x.d > 1
    /\ pageRenderer._placeholders[1].y # pageRenderer._placeholders[1].x

\* ------------------------------------------------------------------------
\* C18
\* ------------------------------------------------------------------------
\* the cell in the same row and the mirrored column: (row, hCap - 1 - col)
Mirror(i) ==
    ((i - 1) \div hCap(pageRenderer.viewport)) * hCap(pageRenderer.viewport)
        + (hCap(pageRenderer.viewport) - 1 - ((i - 1) % hCap(pageRenderer.viewport))) + 1

Rendered == pages.by # "" /\ pages.err = NoErr

\* a page of backs lies behind each page of fronts when backs are handed over
IsBackPage(k) == pages.cardBacks # NoBacks /\ k % 2 = 0
DrawnReversed(k) == IF IsBackPage(k) THEN ~pageRenderer.reversed ELSE pageRenderer.reversed

\* C18: on a page that is drawn reversed, the cell of row r and column c lies
\* at the horizontal coordinate the cell of row r and column hCap - 1 - c has
\* when not reversed, and at its own vertical coordinate; a page that is not
\* drawn reversed has every cell at its own coordinates.
C18_ReversedMirrorsColumns ==
    Rendered =>
        \A k \in 1..Len(pages.pages) : \A i \in 1..Len(pages.pages[k].cells) :
            /\ pages.pages[k].cells[i].y = pageRenderer._placeholders[i].y
            /\ pages.pages[k].cells[i].x
                  = IF DrawnReversed(k) THEN pageRenderer._placeholders[Mirror(i)].x
                    ELSE pageRenderer._placeholders[i].x

C18_Witness ==
    /\ Rendered /\ pageRenderer.reversed /\ pages.cardBacks = NoBacks
    /\ Len(pages.pages) >= 2
    /\ Len(pages.pages[1].cells) >= 4
    /\ pages.pages[1].cells[1].x # pageRenderer._placeholders[1].x
    /\ pages.pages[1].cells[1].x = pageRenderer._placeholders[2].x

\* ------------------------------------------------------------------------
\* C19
\* ------------------------------------------------------------------------
Ceil(n, c) == (n + c - 1) \div c

\* the cells that hold the card
PlacesOf(card) ==
    {<<k, i>> \in (1..Len(pages.pages)) \X (1..Len(pageRenderer._placeholders)) :
        i \in DOMAIN pages.pages[k].cells /\ pages.pages[k].cells[i].card = card}

\* C19: render of n cards by a renderer of capacity c returns ceil(n / c)
\* pages, and card i (from 0) is in cell i mod c of page i div c, and in no
\* other cell.
C19_Pagination ==
    (pages.by = "render" /\ pages.cardBacks = NoBacks) =>
        /\ pages.err = NoErr
        /\ pageRenderer._capacity >= 1
        /\ Len(pages.pages) = Ceil(Len(pages.cards), pageRenderer._capacity)
        /\ \A i \in 1..Len(pages.cards) :
              PlacesOf(pages.cards[i])
                = {<<((i - 1) \div pageRenderer._capacity) + 1,
                     ((i - 1) % pageRenderer._capacity) + 1>>}

\* ------------------------------------------------------------------------
\* C20
\* ------------------------------------------------------------------------
\* the cards of page k: the chunk of the fronts or of the backs it was made of
ChunkSize(k, n) ==
    IF pages.cardBacks = NoBacks
    THEN (IF k * pageRenderer._capacity <= n THEN pageRenderer._capacity
          ELSE n - (k - 1) * pageRenderer._capacity)
    ELSE (IF ((k + 1) \div 2) * pageRenderer._capacity <= n THEN pageRenderer._capacity
          ELSE n - (((k + 1) \div 2) - 1) * pageRenderer._capacity)

\* C20: a page of render draws every cell, the cells behind the last card of
\* its chunk as the filler rectangle; a page of renderConcatenated draws the
\* cells of the cards of its chunk only, and no filler rectangle.
C20_FillerDiscreteOnly ==
    Rendered =>
        \A k \in 1..Len(pages.pages) :
            IF pages.by = "render"
            THEN /\ Len(pages.pages[k].cells) = Len(pageRenderer._placeholders)
                 /\ \A i \in 1..Len(pages.pages[k].cells) :
                       i > ChunkSize(k, Len(pages.cards))
                           => pages.pages[k].cells[i].card = _DEFAULT_CARD
            ELSE \A i \in 1..Len(pages.pages[k].cells) :
                    pages.pages[k].cells[i].card # _DEFAULT_CARD

\* ------------------------------------------------------------------------
\* C21
\* ------------------------------------------------------------------------
\* page k (from 1) holds, cell by cell and mirrored or not, the cards of the
\* chunk (from 0) of the sequence, and lies at the vertical index y
HoldsChunk(k, cards, chunk, reversed, y) ==
    /\ k \in 1..Len(pages.pages)
    /\ pages.pages[k].y = y
    /\ \A i \in 1..pageRenderer._capacity :
          chunk * pageRenderer._capacity + i <= Len(cards) =>
              /\ i \in DOMAIN pages.pages[k].cells
              /\ pages.pages[k].cells[i].card
                    = cards[chunk * pageRenderer._capacity + i]
              /\ pages.pages[k].cells[i].x
                    = cellX(pageRenderer._placeholders[i], reversed)

\* C21: renderConcatenated of n fronts with backs gives, for every chunk k of
\* the fronts, the front page at vertical index 2k and right behind it, at
\* index 2k + 1, the page of the same range of the backs with the opposite
\* mirroring; it reports 2 * ceil(n / capacity) pages.
C21_BacksInterleaved ==
    (pages.by = "renderConcatenated" /\ pages.cardBacks # NoBacks) =>
        /\ pages.err = NoErr
        /\ pageRenderer._capacity >= 1
        /\ pages.numPages = 2 * Ceil(Len(pages.cards), pageRenderer._capacity)
        /\ Len(pages.pages) = pages.numPages
        /\ \A chunk \in 0..(Ceil(Len(pages.cards), pageRenderer._capacity) - 1) :
              /\ HoldsChunk(2 * chunk + 1, pages.cards, chunk,
                            pageRenderer.reversed, 2 * chunk)
              /\ HoldsChunk(2 * chunk + 2, pages.cardBacks, chunk,
                            ~pageRenderer.reversed, 2 * chunk + 1)

\* ------------------------------------------------------------------------
\* C27
\* ------------------------------------------------------------------------
\* the value holds the field of path q, resolved: a nested object for a
\* nested field, and for a terminal field what its processing gave
HoldsResolved(value, q) ==
    /\ q \in DOMAIN value
    /\ IF SourceNested(FirstDefiner(AllSources, q), q) THEN value[q].kind = "obj"
       ELSE \E e \in log : e.path = q /\ e.r.err = NoErr /\ value[q] = e.r.result

\* C27: a callback that is fired with a value for a path gets the subtree of
\* the path with every field that the sources define under the path in it,
\* resolved, whatever the order in which the fields of the subtree resolve.
C27_WholeSubtree ==
    \A i \in 1..Len(fired) :
        ~fired[i].absent =>
            \A q \in SubtreePaths :
                (IsPrefix(fired[i].field, q) /\ DefinedIn(AllSources, q))
                    => HoldsResolved(fired[i].value, q)

C27_Witness ==
    /\ \E i \in 1..Len(fired) :
          /\ ~fired[i].absent /\ fired[i].field = <<"fonts">>
          /\ ~regs[fired[i].cb].loaded
          /\ <<"fonts", "sizes", "art">> \in DOMAIN fired[i].value
          /\ <<"fonts", "title">> \in DOMAIN fired[i].value
    /\ \E e \in log : e.path = <<"template">>

\* ------------------------------------------------------------------------
\* C28
\* ------------------------------------------------------------------------
\* C28 as stated: the add calls and the passes add no key to a source mapping
\* or to a nested mapping of it, the built-in default source included.
C28_SourcesUnchanged == DOMAIN _dirname = {}

\* the context a source of the option mappings is added with
DirnameGiven(id) ==
    IF id = "DEFAULT_OPTIONS" THEN ""
    ELSE (CHOOSE in \in LayerInputs : in[1] = id)[2]

WasAdded(id) == \E k \in 1..Len(calls) : calls[k].src = id

\* C28 amended: the only key the add calls and the passes write in a source
\* mapping is the private key _dirname: an add call sets it on the mapping
\* added, to the context given; a pass sets it on the nested mappings of the
\* sources added, on every one of them when it succeeds, to the context of
\* the source the nested mapping is part of.
C28_OnlyDirnameWritten ==
    /\ \A r \in DOMAIN _dirname :
          /\ WasAdded(r.src)
          /\ _dirname[r] = DirnameGiven(r.src)
          /\ r.at # <<>> => (pc # "idle" /\ SourceNested(r.src, r.at))
    /\ \A k \in 1..Len(calls) : Ref(calls[k].src, <<>>) \in DOMAIN _dirname
    /\ (PassEnded /\ ~PassFailed) =>
          \A k \in 1..Len(calls) : \A p \in LayerPaths :
              SourceNested(calls[k].src, p)
                  => Ref(calls[k].src, p) \in DOMAIN _dirname

C28_Witness ==
    /\ PassEnded /\ ~PassFailed
    /\ Ref("DEFAULT_OPTIONS", <<"fonts">>) \in DOMAIN _dirname
    /\ Ref("U2", <<"fonts">>) \in DOMAIN _dirname
    /\ _dirname[Ref("U2", <<"fonts">>)] = "/cfg"
    /\ _dirname[Ref("DEFAULT_OPTIONS", <<"fonts">>)] = ""

\* ------------------------------------------------------------------------
\* C29
\* ------------------------------------------------------------------------
ContextGiven(id) == (CHOOSE in \in ContextInputs : in[1] = id)[2]

\* the source that supplies the value of the path: the first to define it
Winner(p) == FirstDefiner(AllSources, p)

\* the field was read at the place its own source's context makes of its value
ReadThrough(e, id) ==
    /\ e.field = SourceField(id, e.path)
    /\ e.dirname = ContextGiven(id)
    /\ LET read == ReadOutcome(JoinPath(ContextGiven(id), e.field.value.s))
       IN IF read.res = "ok"
          THEN /\ e.r.err = NoErr
               /\ e.r.result.path = JoinPath(ContextGiven(id), e.field.value.s)
               /\ e.r.result.buffer = read.buffer
          ELSE e.r.err # NoErr \/ e.r.result.buffer = PLACEHOLDER_PNG

\* C29: every terminal field with a file to read, at any depth, is read
\* through the context of the first source, in priority order, that defines
\* it, whatever the contexts of the other sources that define the nested
\* objects around it.
C29_ContextOfWinner ==
    \A e \in log : Reads(e.field) => ReadThrough(e, Winner(e.path))

C29_Witness ==
    /\ AsyncEnded /\ AsyncQuiet
    /\ Len(AllSources) = 2 /\ AllSources[1] = "N1" /\ AllSources[2] = "N3"
    /\ \E e \in log :
          /\ e.path = <<"fonts", "sizes", "logo">>
          /\ e.dirname = ReaderFn /\ e.r.result.buffer = <<"i.png">>
    /\ \E e \in log :
          /\ e.path = <<"fonts", "sizes", "art">>
          /\ e.dirname = "/cfg" /\ e.r.result.buffer = <<"/cfg", "i.png">>

\* ------------------------------------------------------------------------
\* C30
\* ------------------------------------------------------------------------
RecognizedProperties == {"path", "img", "font", "uint", "number"}
OnlyUnrecognized(field) ==
    field.properties # {} /\ field.properties \cap RecognizedProperties = {}

\* C30: a terminal field whose key declares only unrecognized properties
\* resolves without error, in load as in loadSync.
C30_UnrecognizedResolves ==
    \A e \in log : OnlyUnrecognized(e.field) => e.r.err = NoErr

\* ------------------------------------------------------------------------
\* utils.multiplyCards.  A card is the tree of its Options object; its
\* rendering is named by its place among the cards.
\* ------------------------------------------------------------------------
MaxDeck == 2
MaxMultiples == 2

NumberNode(num) == [Blank EXCEPT !.kind = "number", !.num = num]
PlainNode(value) == [Blank EXCEPT !.kind = "plain", !.value = value]

\* the value of a number of the tree
NumberOf(num) ==
    CASE num = "0" -> Whole(0)
      [] num = "2" -> Whole(2)
      [] num = "7" -> Whole(7)
      [] num = "-5" -> Whole(0 - 5)
      [] num = "2.5" -> Frac(5, 2)

\* ToNumber of a node: "NaN" for what is no number
ToNumber(node) ==
    IF node.kind = "number" THEN node.num
    ELSE IF node.kind = "plain" THEN parseFloat(node.value)
    ELSE "NaN"

\* card.get("/count")
countOf(card) == getFrom(card, <<"count">>, 1, At(<<>>)).value

\* k < (card.get("/count") || 1)
BelowCount(k, card) ==
    IF Falsy(card, countOf(card)) THEN k < 1
    ELSE IF ToNumber(card[countOf(card).p]) = "NaN" THEN FALSE
    ELSE k * NumberOf(ToNumber(card[countOf(card).p])).d
            < NumberOf(ToNumber(card[countOf(card).p])).n

\* for (let k=0; k<(card.get("/count")||1); k++) multipliedCards.push(renderedCard)
RECURSIVE pushCopies(_, _, _, _)
pushCopies(multiplied, card, renderedCard, k) ==
    IF ~BelowCount(k, card) THEN multiplied
    ELSE pushCopies(Append(multiplied, renderedCard), card, renderedCard, k + 1)

\* for (let j=0; j<quantity; j++)
RECURSIVE pushMultiples(_, _, _, _, _)
pushMultiples(multiplied, card, renderedCard, quantity, j) ==
    IF ~(j < quantity) THEN multiplied
    ELSE pushMultiples(pushCopies(multiplied, card, renderedCard, 0), card,
                       renderedCard, quantity, j + 1)

\* for (let i=0; i<cards.length; i++)
RECURSIVE multiplyFrom(_, _, _, _, _)
multiplyFrom(multiplied, cards, renderedCards, quantity, i) ==
    IF ~(i < Len(cards)) THEN multiplied
    ELSE multiplyFrom(pushMultiples(multiplied, cards[i + 1], renderedCards[i + 1],
                                    quantity, 0),
                      cards, renderedCards, quantity, i + 1)

\* run calls it once
multiplyCards(cards, renderedCards, quantity) ==
    /\ ~multipliedCards.called
    /\ multipliedCards' = [called |-> TRUE, cards |-> cards, quantity |-> quantity,
                           out |-> multiplyFrom(<<>>, cards, renderedCards, quantity, 0)]
    /\ UNCHANGED <<pageRenderer, pages, rr, fieldKey, xml, reader>>
    /\ UNCHANGED <<_data, _sources, _overrides, _loaded, _loadedListeners, _dirname,
                   each, pending, ticks, fired, loadCb, thrown, log, errs, pc, calls,
                   regs, got>>

\* the tree of a card with the count given, and of a card without a count
CardWith(count) == Put(Put(EmptyTree, <<"title">>, PlainNode(Str("Cash Out"))),
                       <<"count">>, count)
CardWithout == Put(EmptyTree, <<"title">>, PlainNode(Str("Cash Out")))

\* counts of every kind: numbers of (uint) and (number) columns, the NaN of an
\* unparsable cell, the strings of a column without properties
CardTrees ==
    {CardWithout} \cup
    {CardWith(NumberNode(num)) : num \in {"0", "2", "7", "-5", "2.5", "NaN"}} \cup
    {CardWith(PlainNode(Str(str))) : str \in {"", "7", "abc"}}

Decks == UNION {[1..n -> CardTrees] : n \in 0..MaxDeck}

NextMultiply ==
    \E cards \in Decks : \E quantity \in 0..MaxMultiples :
        multiplyCards(cards, Cards(Len(cards)), quantity)

SpecMultiply == Init /\ [][NextMultiply]_vars

\* ------------------------------------------------------------------------
\* C25
\* ------------------------------------------------------------------------
\* the count of a card that is a non-negative integer, 1 for a card without
CountNumerals == {"0", "2", "7"}
HasCount(card) == <<"count">> \in DOMAIN card
WholeCount(card) ==
    ~HasCount(card)
       \/ (card[<<"count">>].kind = "number" /\ card[<<"count">>].num \in CountNumerals)
CountTimes(card) ==
    IF ~HasCount(card) THEN 1 ELSE NumberOf(card[<<"count">>].num).n

RECURSIVE Repeat(_, _)
Repeat(x, n) == IF n <= 0 THEN <<>> ELSE <<x>> \o Repeat(x, n - 1)

RECURSIVE Expected(_, _, _)
Expected(cards, quantity, i) ==
    IF i > Len(cards) THEN <<>>
    ELSE Repeat(<<"front", i>>, quantity * CountTimes(cards[i]))
            \o Expected(cards, quantity, i + 1)

\* C25: when every card has a non-negative integer for its count, or none,
\* multiplyCards gives the renderings in the order of the cards, each of them
\* multiples x count times in a row, the count being 1 for a card without.
C25_MultipliedByCount ==
    (multipliedCards.called /\ \A i \in 1..Len(multipliedCards.cards) :
                                  WholeCount(multipliedCards.cards[i])) =>
        multipliedCards.out = Expected(multipliedCards.cards, multipliedCards.quantity, 1)

\* ------------------------------------------------------------------------
\* CcsbReader (lib/ccsb.js) and the files a ReadAndRender is made for
\* ------------------------------------------------------------------------
DATA_PATH == "cards.csv"
CONFIG_PATH == "config.hjson"
TEMPLATE_PATH == "template.pug"
JSON_PATH == "fields.json"

\* the config files that exist, all of them in /cfg, and what they parse to
ConfigFiles == {"full.hjson", "bare.hjson", "lost.hjson", "plain.hjson"}
ConfigOf(path) ==
    CASE path = "full.hjson" -> "R1"
      [] path = "bare.hjson" -> "R2"
      [] path = "lost.hjson" -> "R3"
      [] path = "plain.hjson" -> "R4"

\* the bundles: one with its four entries, one without the fonts JSON, and
\* a file that is no zip archive
Bundles == {"full.ccsb", "nofonts.ccsb", "broken.ccsb"}
IsZip(bundle) == bundle # "broken.ccsb"
EntriesOf(bundle) ==
    IF bundle = "full.ccsb" THEN {DATA_PATH, CONFIG_PATH, TEMPLATE_PATH, JSON_PATH}
    ELSE {DATA_PATH, CONFIG_PATH, TEMPLATE_PATH}
\* what config.hjson and the fonts of fields.json parse to
BundleConfig(bundle) == "B1"
BundleFonts(bundle) == "F1"

\* mime.lookup(path)
lookup(path) ==
    IF path \in ConfigFiles \cup {"none.hjson"} THEN "text/hjson"
    ELSE IF path \in Bundles THEN "application/x-ccs-bundle"
    ELSE "text/csv"

\* a variant of loadSync that returns
loadSyncReturns == NoErr
\* CcsbReader.loadSync: throw new Error("Sync is not supported ...")
CcsbReader_loadSyncThrows == Err("SyncNotSupported", <<>>)
\* CcsbReader.readFileSync
readFileSyncThrows == Err("SyncNotSupported", <<>>)

\* what csvParse gives for the bytes of a data file
QueryCsv ==
    <<<< <<"id">>, <<"title">> >>,
      <<"k1", "Cash Out">>,
      <<"k2", "Mint">>,
      <<"k3", "Cash Out">> >>
PlainCsv ==
    <<<< <<"title">>, <<"count">> >>,
      <<"Mint", "2">>,
      <<"Cash Out", "1">> >>
csvParse(buffer) == IF buffer = <<"/cfg", "cards.csv">> THEN QueryCsv ELSE PlainCsv

\* ------------------------------------------------------------------------
\* utils.satisfiesQuery.  The query is null, undefined, or a value of the tree.
\* ------------------------------------------------------------------------
NullValue == [k |-> "null", value |-> EmptyTree]
UndefinedValue == [k |-> "undefined", value |-> EmptyTree]
TreeValue(value) == [k |-> "value", value |-> value]

\* query[name]: the raw value of a plain field, undefined for no field, and
\* for a field of another kind a value that equals no cell
Other == [t |-> "other", s |-> "", o |-> <<>>]
QueryProp(query, name) ==
    IF <<"query", name>> \notin DOMAIN query.value THEN Undefined
    ELSE IF query.value[<<"query", name>>].kind = "plain"
    THEN query.value[<<"query", name>>].value
    ELSE Other

\* a === b, for a cell of a row and a property of the query
StrictEqual(a, b) == a = b /\ a.t \in {"str", "null", "undefined"}

\* Object.keys(query).length === 0
NoKeys(query) == \A q \in DOMAIN query.value : Len(q) < 2

\* a variant that compares the ids only
satisfiesQueryById(row, query) ==
    \/ query.k \in {"undefined", "null"}
    \/ NoKeys(query)
    \/ (QueryProp(query, "id") = Null /\ QueryProp(query, "title") = Null)
    \/ StrictEqual(ValueOf(row, <<"id">>), QueryProp(query, "id"))
satisfiesQuery(row, query) ==
    \/ query.k \in {"undefined", "null"}
    \/ NoKeys(query)
    \/ (QueryProp(query, "id") = Null /\ QueryProp(query, "title") = Null)
    \/ StrictEqual(ValueOf(row, <<"id">>), QueryProp(query, "id"))
    \/ StrictEqual(ValueOf(row, <<"title">>), QueryProp(query, "title"))

\* rows.filter((row) => utils.satisfiesQuery(row, query))
RECURSIVE rowsToProcess(_, _)
rowsToProcess(rows, query) ==
    IF rows = <<>> THEN <<>>
    ELSE (IF satisfiesQuery(Head(rows), query) THEN <<Head(rows)>> ELSE <<>>)
            \o rowsToProcess(Tail(rows), query)

\* ------------------------------------------------------------------------
\* ReadAndRender.load: the tasks of its async.auto
\* a = the ReadAndRender record; running: the tasks begun and not called back
\* ------------------------------------------------------------------------
Tasks ==
    <<"configContent", "optionTemplate", "optionData", "optionQuery", "jsonContent",
      "optionsAll", "renderer", "rendererBuild", "cardData", "cards", "collect">>

Deps(task) ==
    CASE task = "jsonContent" -> {"configContent"}
      [] task = "optionsAll" -> {"configContent", "jsonContent"}
      [] task = "rendererBuild" -> {"optionTemplate"}
      [] task = "cardData" -> {"optionData"}
      [] task = "cards" -> {"optionQuery", "optionData", "cardData"}
      [] task = "collect" -> {"cards"}
      [] OTHER -> {}

ReadyTasks(a) ==
    {i \in 1..Len(Tasks) : Tasks[i] \notin a.started /\ Deps(Tasks[i]) \subseteq a.done}
FirstReady(a) == Tasks[CHOOSE i \in ReadyTasks(a) : \A j \in ReadyTasks(a) : i <= j]

\* results.optionTemplate.buffer: a TypeError unless the value has a buffer
HasBuffer(result, field) ==
    /\ result.k = "value"
    /\ field \in DOMAIN result.value
    /\ result.value[field].kind = "asset"
    /\ result.value[field].buffer # <<>>

TypeError(task) == Err("TypeError", <<task>>)

\* callback = once(callback): the callback handed to load
Callback(a, err) == IF a.cb = <<>> THEN [a EXCEPT !.cb = <<err>>] ELSE a

Store(results, key, result) ==
    IF key \in DOMAIN results THEN [results EXCEPT ![key] = result] ELSE results

RECURSIVE processQueue(_)
RECURSIVE taskCallback(_, _, _, _)

\* a task begins: what it does before it returns
runTask(a, task) ==
    IF task = "rendererBuild"
    THEN (IF HasBuffer(a.results.optionTemplate, <<"template">>)
          THEN taskCallback(a, task, NoErr, <<>>)
          ELSE [a EXCEPT !.escaped = TypeError(task)])
    ELSE IF task = "cardData"
    THEN (IF HasBuffer(a.results.optionData, <<"data">>) THEN processQueue(a)
          ELSE [a EXCEPT !.escaped = TypeError(task)])
    ELSE IF task = "cards"
    THEN (IF rowsToProcess(a.results.cardData, a.results.optionQuery) = <<>>
          THEN taskCallback(a, task, NoErr, <<>>)
          ELSE processQueue(a))
    ELSE IF task = "collect"
    THEN taskCallback([a EXCEPT !.cards = a.results.cards], task, NoErr, <<>>)
    ELSE IF task = "jsonContent" /\ a.ccsb # ""
    THEN (IF JSON_PATH \in EntriesOf(a.ccsb)
          THEN processQueue([a EXCEPT !.reading = JSON_PATH])
          ELSE taskCallback(a, task, Err("CannotFindFile", <<JSON_PATH>>), <<>>))
    ELSE processQueue(a)

processQueue(a) ==
    IF a.escaped # NoErr \/ a.hasError THEN a
    ELSE IF ReadyTasks(a) = {}
    THEN (IF a.running = {} THEN Callback(a, NoErr) ELSE a)
    ELSE runTask([a EXCEPT !.started = @ \cup {FirstReady(a)},
                           !.running = @ \cup {FirstReady(a)}],
                 FirstReady(a))

taskCallback(a, key, err, result) ==
    IF err # NoErr
    THEN Callback([a EXCEPT !.running = @ \ {key}, !.hasError = TRUE], err)
    ELSE processQueue([a EXCEPT !.running = @ \ {key}, !.done = @ \cup {key},
                                !.results = Store(@, key, result)])

\* the listeners load registers with onceLoaded, by the number of their callback
ListenerTask(cb) ==
    CASE cb = 1 -> "optionTemplate" [] cb = 2 -> "optionData" [] cb = 3 -> "optionQuery"
ValueHeard(inv) == IF inv.absent THEN NullValue ELSE TreeValue(inv.value)

\* the listeners invoked by a handler run, one after the other, until one throws
RECURSIVE listenAll(_, _, _)
listenAll(a, invs, i) ==
    IF i > Len(invs) \/ a.escaped # NoErr THEN a
    ELSE listenAll(taskCallback([a EXCEPT !.heard = @ + 1], ListenerTask(invs[i].cb),
                                NoErr, ValueHeard(invs[i])),
                   invs, i + 1)

FiredBy(st) == SubSeq(st.fired, Len(fired) + 1, Len(st.fired))
IsAbsent(inv) == inv.absent
\* the listeners of the drain, which stay queued when one of them throws
Undrained(invs) ==
    [i \in 1..Len(SelectSeq(invs, IsAbsent)) |->
        [field |-> SelectSeq(invs, IsAbsent)[i].field,
         cbs |-> <<SelectSeq(invs, IsAbsent)[i].cb>>]]

\* A handler of the pass gave st, with the listeners it invoked taken to
\* return; a is what these listeners did.  A listener that throws ends the
\* handler: in the passes of this model that is a listener of the drain,
\* which is the last thing its handler does, so the listeners after it are
\* not invoked, the queue is not emptied and load's callback is not called.
Settled(st, a) ==
    IF a.escaped # NoErr
    THEN /\ Becomes([st EXCEPT !.fired = SubSeq(st.fired, 1, a.heard),
                               !.listeners = Undrained(FiredBy(st)),
                               !.loadCb = loadCb])
         /\ rr' = [a EXCEPT !.phase = "crashed"]
    ELSE /\ Becomes(st)
         /\ rr' = IF Len(st.loadCb) > Len(loadCb)
                  THEN taskCallback(a, "optionsAll", st.loadCb[Len(st.loadCb)], <<>>)
                  ELSE a

\* ------------------------------------------------------------------------
\* ReadAndRender
\* ------------------------------------------------------------------------
Call(op, src, dirname) == [op |-> op, src |-> src, dirname |-> dirname]

\* the add calls of the list, on the Options object o
addOne(o, c) ==
    [heap |-> SetHeap(o.heap, Ref(c.src, <<>>), c.dirname),
     overrides |-> IF c.op = "addOverride" THEN Append(o.overrides, c.src)
                   ELSE o.overrides,
     sources |-> IF c.op = "addPrimary" THEN unshift(o.sources, c.src)
                 ELSE IF c.op = "addOverride" THEN o.sources
                 ELSE push(o.sources, c.src),
     calls |-> Append(o.calls, [op |-> c.op, src |-> c.src])]

RECURSIVE addAll(_, _)
addAll(o, cs) == IF cs = <<>> THEN o ELSE addAll(addOne(o, Head(cs)), Tail(cs))

ThisOptions ==
    [heap |-> _dirname, overrides |-> _overrides, sources |-> _sources, calls |-> calls]

NoOptions == ""

OptionsUnchanged ==
    UNCHANGED <<_data, _sources, _overrides, _loaded, _loadedListeners, _dirname,
                each, pending, ticks, fired, loadCb, thrown, log, errs, pc, calls,
                regs>>
RestUnchanged == UNCHANGED <<got, pageRenderer, pages, multipliedCards, fieldKey, xml, reader>>

\* new ReadAndRender(path, optionsOverride, optionsFallback)
constructed(path) ==
    IF lookup(path) = "text/hjson"
    THEN [NoReadAndRender EXCEPT !.phase = "new", !.configPath = path]
    ELSE IF lookup(path) = "application/x-ccs-bundle"
    THEN [NoReadAndRender EXCEPT !.phase = "new", !.ccsb = path]
    ELSE [NoReadAndRender EXCEPT !.phase = "threw",
                                 !.thrown = Err("UnknownConfigType", <<path>>)]

ReadAndRender(path, optionsOverride, optionsFallback) ==
    /\ rr.phase = "none" /\ pc = "idle" /\ calls = <<>>
    /\ LET o == addAll(ThisOptions,
                       (IF optionsFallback # NoOptions
                        THEN <<Call("addOverride", optionsOverride, ""),
                               Call("addFallback", optionsFallback, "")>>
                        ELSE <<Call("addFallback", optionsOverride, "")>>)
                          \o <<Call("addDefaultFallback", "DEFAULT_OPTIONS", "")>>)
       IN /\ _dirname' = o.heap
          /\ _overrides' = o.overrides
          /\ _sources' = o.sources
          /\ calls' = o.calls
    /\ rr' = constructed(path)
    /\ UNCHANGED <<_data, _loaded, _loadedListeners, each, pending, ticks, fired,
                   loadCb, thrown, log, errs, pc, regs>>
    /\ RestUnchanged

Listens(field, cb) ==
    [cb |-> cb, field |-> field, loaded |-> field \in _loaded, ended |-> loadCb # <<>>]

\* load(next) up to its return: the tasks without dependencies begin
ReadAndRender_load ==
    /\ rr.phase = "new"
    /\ _loadedListeners' = Queue(Queue(Queue(_loadedListeners, <<"template">>, 1),
                                       <<"data">>, 2),
                                 <<"query">>, 3)
    /\ regs' = regs \o <<Listens(<<"template">>, 1), Listens(<<"data">>, 2),
                         Listens(<<"query">>, 3)>>
    /\ rr' = processQueue([rr EXCEPT !.phase = "loading"])
    /\ UNCHANGED <<_data, _sources, _overrides, _loaded, _dirname, each, pending,
                   ticks, fired, loadCb, thrown, log, errs, pc, calls>>
    /\ RestUnchanged

\* the task optionsAll, begun by the task callback that gave a
optionsAll(a, cs) ==
    IF "optionsAll" \notin a.running
    THEN rr' = a /\ OptionsUnchanged
    ELSE /\ _overrides' = addAll(ThisOptions, cs).overrides
         /\ _sources' = addAll(ThisOptions, cs).sources
         /\ calls' = addAll(ThisOptions, cs).calls
         /\ pc' = "load"
         /\ Settled(consume([Now EXCEPT !.heap = addAll(ThisOptions, cs).heap], <<>>,
                            Concat(addAll(ThisOptions, cs).overrides,
                                   addAll(ThisOptions, cs).sources)),
                    a)
         /\ UNCHANGED <<thrown, regs>>

\* a callback of process.nextTick is due
TickDue == ticks # <<>> \/ (rr.ccsb = "" /\ "jsonContent" \in rr.running)

\* fs.readFile(this.configPath, _next) calls back
configRead ==
    /\ rr.phase = "loading" /\ rr.configPath # "" /\ "configContent" \in rr.running
    /\ ~TickDue
    /\ rr' = taskCallback(rr, "configContent",
                          IF rr.configPath \in ConfigFiles THEN NoErr
                          ELSE Err("ReadError", <<rr.configPath>>),
                          <<>>)
    /\ OptionsUnchanged
    /\ RestUnchanged

\* the nextTick callback of jsonContent, then optionsAll
jsonContentTick ==
    /\ rr.phase = "loading" /\ rr.ccsb = "" /\ "jsonContent" \in rr.running
    /\ optionsAll(taskCallback(rr, "jsonContent", NoErr, <<>>),
                  <<Call("addPrimary", ConfigOf(rr.configPath), "/cfg")>>)
    /\ RestUnchanged

\* the waterfall of CcsbReader.load calls back, then readFile(CONFIG_PATH)
CcsbReader_load ==
    /\ rr.phase = "loading" /\ rr.ccsb # "" /\ ~rr.zip
    /\ "configContent" \in rr.running
    /\ ~TickDue
    /\ rr' = IF ~IsZip(rr.ccsb)
             THEN taskCallback(rr, "configContent", Err("NotValidCcsb", <<rr.ccsb>>),
                               <<>>)
             ELSE IF CONFIG_PATH \in EntriesOf(rr.ccsb)
             THEN [rr EXCEPT !.zip = TRUE, !.reading = CONFIG_PATH]
             ELSE taskCallback([rr EXCEPT !.zip = TRUE], "configContent",
                               Err("CannotFindFile", <<CONFIG_PATH>>), <<>>)
    /\ OptionsUnchanged
    /\ RestUnchanged

\* CcsbReader.readFile calls back with the bytes of an entry
readFile ==
    /\ rr.phase = "loading" /\ rr.reading # ""
    /\ ~TickDue
    /\ IF rr.reading = CONFIG_PATH
       THEN /\ rr' = taskCallback([rr EXCEPT !.reading = ""], "configContent", NoErr,
                                  <<>>)
            /\ OptionsUnchanged
       ELSE optionsAll(taskCallback([rr EXCEPT !.reading = ""], "jsonContent", NoErr,
                                    <<>>),
                       <<Call("addPrimary", "BT", ReaderFn),
                         Call("addPrimary", BundleConfig(rr.ccsb), ReaderFn),
                         Call("addPrimary", BundleFonts(rr.ccsb), ReaderFn)>>)
    /\ RestUnchanged

\* the callback at the head of the nextTick queue runs, and the listeners of
\* load with it
RunTickHeard ==
    /\ rr.phase = "loading" /\ ticks # <<>>
    /\ Settled(RunCallback([Now EXCEPT !.ticks = Tail(ticks)], Head(ticks)),
               listenAll(rr, FiredBy(RunCallback([Now EXCEPT !.ticks = Tail(ticks)],
                                                  Head(ticks))), 1))
    /\ UNCHANGED <<_sources, _overrides, thrown, pc, calls, regs>>
    /\ RestUnchanged

ReadGave(task) ==
    fieldCallback([Now EXCEPT !.pending = @ \ {task}], task.path, task.field,
                  task.dirname,
                  processFieldBuffer(task.field, task.dirname,
                                     ReadOf(task.field, task.dirname)))

\* a file read of the pass completes, and the listeners of load run with it
ReadDoneHeard ==
    /\ rr.phase = "loading" /\ ~TickDue
    /\ \E task \in pending :
          Settled(ReadGave(task), listenAll(rr, FiredBy(ReadGave(task)), 1))
    /\ UNCHANGED <<_sources, _overrides, thrown, pc, calls, regs>>
    /\ RestUnchanged

\* this.renderer.load calls back
rendererLoaded ==
    /\ rr.phase = "loading" /\ "renderer" \in rr.running /\ ~TickDue
    /\ rr' = taskCallback(rr, "renderer", NoErr, <<>>)
    /\ OptionsUnchanged
    /\ RestUnchanged

\* csv.csvBufferToObjects calls back
cardData ==
    /\ rr.phase = "loading" /\ "cardData" \in rr.running /\ ~TickDue
    /\ rr' = taskCallback(rr, "cardData", NoErr,
                csvBufferToObjects(csvParse(
                    rr.results.optionData.value[<<"data">>].buffer)))
    /\ OptionsUnchanged
    /\ RestUnchanged

\* async.map calls back: every row to process has been loaded as the options
\* of a card (the rows of the model hold plain fields only)
cards ==
    /\ rr.phase = "loading" /\ "cards" \in rr.running /\ ~TickDue
    /\ rr' = taskCallback(rr, "cards", NoErr,
                          rowsToProcess(rr.results.cardData, rr.results.optionQuery))
    /\ OptionsUnchanged
    /\ RestUnchanged

\* this.options.get(fullFieldName), for a field at the top of the tree
SyncValue(data, field) ==
    IF field \in DOMAIN data THEN TreeValue(Subtree(data, field)) ELSE UndefinedValue

\* loadSync from this.options.loadSync() on, st being what that pass gave
loadedSync(a, st) ==
    IF st.err # NoErr THEN [a EXCEPT !.thrown = st.err]
    ELSE IF ~HasBuffer(SyncValue(st.data, <<"template">>), <<"template">>)
    THEN [a EXCEPT !.thrown = TypeError("template")]
    ELSE IF ~HasBuffer(SyncValue(st.data, <<"data">>), <<"data">>)
    THEN [a EXCEPT !.thrown = TypeError("data")]
    ELSE [a EXCEPT !.cards =
            rowsToProcess(csvBufferToObjects(csvParse(st.data[<<"data">>].buffer)),
                          SyncValue(st.data, <<"query">>))]

SyncPassOf(o) ==
    consumeSync([data |-> _data, heap |-> o.heap, err |-> NoErr, log |-> log],
                <<>>, Concat(o.overrides, o.sources))

ReadAndRender_loadSync ==
    /\ rr.phase = "new"
    /\ IF rr.ccsb # ""
       THEN /\ rr' = [rr EXCEPT !.phase = "loadSync",
                                !.thrown = IF CcsbReader_loadSyncThrows # NoErr
                                           THEN CcsbReader_loadSyncThrows
                                           ELSE readFileSyncThrows]
            /\ OptionsUnchanged
       ELSE IF rr.configPath \notin ConfigFiles
       THEN /\ rr' = [rr EXCEPT !.phase = "loadSync",
                                !.thrown = Err("ReadError", <<rr.configPath>>)]
            /\ OptionsUnchanged
       ELSE LET o == addAll(ThisOptions,
                            <<Call("addPrimary", ConfigOf(rr.configPath), "/cfg")>>)
            IN /\ _overrides' = o.overrides
               /\ _sources' = o.sources
               /\ calls' = o.calls
               /\ pc' = "loadSync"
               /\ Returns(SyncPassOf(o))
               /\ rr' = loadedSync([rr EXCEPT !.phase = "loadSync"], SyncPassOf(o))
               /\ UNCHANGED <<_loaded, _loadedListeners, each, pending, ticks, fired,
                              loadCb, errs, regs>>
    /\ RestUnchanged

\* a caller of the bundle reader calls one of its blocking methods
CcsbReader_loadSync ==
    /\ rr.ccsb # ""
    /\ rr' = [rr EXCEPT !.sync = [op |-> "loadSync", zip |-> rr.zip,
                                  threw |-> CcsbReader_loadSyncThrows]]
    /\ OptionsUnchanged
    /\ RestUnchanged

readFileSync ==
    /\ rr.ccsb # ""
    /\ rr' = [rr EXCEPT !.sync = [op |-> "readFileSync", zip |-> rr.zip,
                                  threw |-> readFileSyncThrows]]
    /\ OptionsUnchanged
    /\ RestUnchanged

\* the ReadAndRender objects of the model: the file, and the options given
RenderInputs ==
    {<<"full.hjson", "Q1", NoOptions>>, <<"full.hjson", "Q0", "Q2">>,
     <<"plain.hjson", "Q1", NoOptions>>, <<"plain.hjson", "Q2", NoOptions>>,
     <<"bare.hjson", "Q1", NoOptions>>, <<"lost.hjson", "Q1", NoOptions>>,
     <<"none.hjson", "Q0", NoOptions>>, <<"full.ccsb", "Q1", NoOptions>>,
     <<"nofonts.ccsb", "Q1", NoOptions>>, <<"broken.ccsb", "Q0", NoOptions>>,
     <<"cards.csv", "Q0", NoOptions>>}

NextRender ==
    \/ \E in \in RenderInputs : ReadAndRender(in[1], in[2], in[3])
    \/ ReadAndRender_load
    \/ ReadAndRender_loadSync
    \/ configRead
    \/ jsonContentTick
    \/ CcsbReader_load
    \/ readFile
    \/ RunTickHeard
    \/ ReadDoneHeard
    \/ rendererLoaded
    \/ cardData
    \/ cards
    \/ CcsbReader_loadSync
    \/ readFileSync

SpecRender == Init /\ [][NextRender]_vars

\* ------------------------------------------------------------------------
\* C22
\* ------------------------------------------------------------------------
SyncNotSupported == Err("SyncNotSupported", <<>>)

\* C22: loadSync of a ReadAndRender made for a bundle throws the error that
\* sync is not supported and resolves nothing, and a call of loadSync or of
\* readFileSync on the bundle reader throws it, loaded or not.
C22_BundleSyncThrows ==
    /\ (rr.phase = "loadSync" /\ rr.ccsb # "") =>
          /\ rr.thrown = SyncNotSupported
          /\ pc = "idle" /\ _data = EmptyTree /\ log = {}
          /\ rr.cards = <<>>
    /\ rr.sync.op # "" => rr.sync.threw = SyncNotSupported

C22_Witness ==
    /\ rr.phase = "loadSync" /\ rr.ccsb = "full.ccsb"
    /\ rr.thrown = SyncNotSupported
    /\ rr.sync.op = "loadSync"

\* ------------------------------------------------------------------------
\* C23
\* ------------------------------------------------------------------------
\* a bundle with its data, template and config entries and no fonts JSON
WithoutFontsJson(bundle) ==
    /\ bundle \in Bundles /\ IsZip(bundle)
    /\ {DATA_PATH, TEMPLATE_PATH, CONFIG_PATH} \subseteq EntriesOf(bundle)
    /\ JSON_PATH \notin EntriesOf(bundle)

DefaultFonts == {<<"fonts", "title">>, <<"fonts", "body">>}

\* C23: when load on a bundle without the fonts JSON has called back, it has
\* done so without an error, and the fonts of the tree are the default ones.
C23_FontsJsonOptional ==
    (WithoutFontsJson(rr.ccsb) /\ rr.cb # <<>>) =>
        /\ rr.cb = <<NoErr>>
        /\ \A q \in DOMAIN _data : (Len(q) = 2 /\ q[1] = "fonts") => q \in DefaultFonts

\* ------------------------------------------------------------------------
\* C24
\* ------------------------------------------------------------------------
\* the query names a title and no id: its id is missing or null
TitleOnly(query) ==
    /\ query.k = "value"
    /\ QueryProp(query, "title").t = "str"
    /\ QueryProp(query, "id") \in {Undefined, Null}

RECURSIVE WithTitle(_, _)
WithTitle(rows, title) ==
    IF rows = <<>> THEN <<>>
    ELSE (IF ValueOf(Head(rows), <<"title">>) = title THEN <<Head(rows)>> ELSE <<>>)
            \o WithTitle(Tail(rows), title)

DataRows(data) == csvBufferToObjects(csvParse(data[<<"data">>].buffer))

\* C24: with a query that names a title and no id, the rows selected, by load
\* and by loadSync, are the rows of the data whose title is the one of the
\* query, in their order, whether the data has an id column or not.
C24_TitleSelects ==
    /\ ("cards" \in rr.done /\ TitleOnly(rr.results.optionQuery)) =>
          rr.results.cards = WithTitle(rr.results.cardData,
                                       QueryProp(rr.results.optionQuery, "title"))
    /\ (rr.phase = "loadSync" /\ rr.thrown = NoErr
           /\ TitleOnly(SyncValue(_data, <<"query">>))) =>
          rr.cards = WithTitle(DataRows(_data),
                               QueryProp(SyncValue(_data, <<"query">>), "title"))

C24_Witness ==
    /\ "collect" \in rr.done /\ TitleOnly(rr.results.optionQuery)
    /\ rr.configPath = "plain.hjson"
    /\ Len(rr.results.cardData) = 2 /\ Len(rr.cards) = 1
    /\ ValueOf(rr.cards[1], <<"id">>) = Str(RowId(1))

\* ------------------------------------------------------------------------
\* C26
\* ------------------------------------------------------------------------
\* the pass of load has ended: the callback of its async.each has run
PassOver == <<>> \in DOMAIN each /\ each[<<>>].called
Unresolved == <<"template">> \notin _loaded \/ <<"data">> \notin _loaded

\* C26: once the pass of a ReadAndRender.load has ended with an error, or
\* without /template or /data, the callback of load has been called once,
\* with an error, and no exception has escaped from a listener.
C26_FailureSurfaced ==
    (rr.phase \in {"loading", "crashed"} /\ PassOver /\ (errs # <<>> \/ Unresolved)) =>
        /\ rr.escaped = NoErr
        /\ Len(rr.cb) = 1 /\ rr.cb[1] # NoErr

\* ------------------------------------------------------------------------
\* parseFieldKey on its own: convertKeysToFields gives it a key of a source
\* ------------------------------------------------------------------------
MaxKeyLen == 6

\* the tokens of a key: words, the space, the parentheses, the array marker
KeyTokens == {"n", "p", " ", "(", ")", "[]"}
KeysGiven == UNION {[1..n -> KeyTokens] : n \in 0..MaxKeyLen}

\* let field = parseFieldKey(key)
parseKey(key) ==
    /\ fieldKey' = [called |-> TRUE, key |-> key, out |-> parseFieldKey(key)]
    /\ UNCHANGED <<pageRenderer, pages, rr, multipliedCards, xml, reader>>
    /\ UNCHANGED <<_data, _sources, _overrides, _loaded, _loadedListeners, _dirname,
                   each, pending, ticks, fired, loadCb, thrown, log, errs, pc, calls,
                   regs, got>>

\* one key is followed
NextKey == ~fieldKey.called /\ \E key \in KeysGiven : parseKey(key)

SpecKey == Init /\ [][NextKey]_vars

\* ------------------------------------------------------------------------
\* C32
\* ------------------------------------------------------------------------
\* "n (p)[]" and "n[] (p)"
GroupThenMarker(n, p) == <<n, " ", "(", p, ")", "[]">>
MarkerThenGroup(n, p) == <<n, "[]", " ", "(", p, ")">>
KeyWords == {tok \in KeyTokens : IsWord(tok)}

\* C32: parseFieldKey accepts the property group and the array marker in
\* either order: for a name n and a property p, both "n (p)[]" and "n[] (p)"
\* parse to the name n, the properties {p} and the array flag true.
C32_EitherOrder ==
    \A n \in KeyWords : \A p \in KeyWords :
        (fieldKey.called
           /\ fieldKey.key \in {GroupThenMarker(n, p), MarkerThenGroup(n, p)}) =>
            fieldKey.out = [err |-> NoErr, name |-> n, properties |-> {p},
                            array |-> TRUE]

\* ------------------------------------------------------------------------
\* stripXML and applyXML.  A text is the sequence of its characters; a line
\* is a text.  from and to of a StrippedPart are null until they are set,
\* and a part is pushed only after both were.
\* ------------------------------------------------------------------------
\* new StrippedPart(), with from, tag and endTag as the opening "<" sets them
StrippedPart(index) == [tag |-> <<>>, endTag |-> <<>>, from |-> index, to |-> 0]

NoStrip == [inside |-> 0, newText |-> <<>>, index |-> 0,
            strippedPart |-> StrippedPart(0), strippedParts |-> <<>>]

\* the branch taken after the tests on "<" and ">":
\* if (inside === 0 || inside === 2) ... else if (inside === 1) ... else if (inside === 3)
stripChar(st, char) ==
    IF st.inside \in {0, 2}
    THEN [st EXCEPT !.newText = Append(@, char), !.index = @ + 1]
    ELSE IF st.inside = 1
    THEN [st EXCEPT !.strippedPart.tag = Append(@, char)]
    ELSE IF st.inside = 3
    THEN [st EXCEPT !.strippedPart.endTag = Append(@, char)]
    ELSE st

\* strippedParts.push(strippedPart)
pushPart(st) == [st EXCEPT !.strippedParts = Append(@, st.strippedPart), !.inside = 0]

\* one turn of the loop over the characters of the text
stripStep(st, char) ==
    IF st.inside = 0 /\ char = "<"
    THEN stripChar([st EXCEPT !.inside = 1, !.strippedPart = StrippedPart(st.index)],
                   char)
    ELSE IF st.inside = 1 /\ char = ">"
    THEN [st EXCEPT !.strippedPart.tag = Append(@, char), !.inside = 2]
    ELSE IF st.inside = 2 /\ char = "<"
    THEN stripChar([st EXCEPT !.inside = 3, !.strippedPart.to = st.index], char)
    ELSE IF st.inside = 3 /\ char = ">"
    THEN pushPart([st EXCEPT !.strippedPart.endTag = Append(@, char)])
    ELSE stripChar(st, char)

RECURSIVE stripFrom(_, _, _)
stripFrom(st, text, i) ==
    IF ~(i < Len(text)) THEN st
    ELSE stripFrom(stripStep(st, text[i + 1]), text, i + 1)

Stripped(st) == [newText |-> st.newText, strippedParts |-> st.strippedParts]
stripXML(text) == Stripped(stripFrom(NoStrip, text, 0))

\* Math.min, Math.max
Min(a, b) == IF a < b THEN a ELSE b
Max(a, b) == IF a > b THEN a ELSE b

\* line.slice(0, at) + inserted + line.slice(at)
insertAt(line, at, inserted) ==
    slice(line, 0, at) \o inserted \o slice(line, at, Len(line))

\* lines[j] with endTag put in at to, then tag at from
tagged(line, strippedPart, from, to) ==
    insertAt(insertAt(line, to, strippedPart.endTag), from, strippedPart.tag)

\* the part put into lines[j]: index is the length of the lines up to and
\* with lines[j], startIndex = index - lines[j].length
taggedLine(lines, strippedPart, j, index) ==
    [lines EXCEPT ![j + 1] =
        tagged(@, strippedPart,
               Max(0, strippedPart.from - (index - Len(lines[j + 1])) - j),
               Min(index, strippedPart.to - (index - Len(lines[j + 1])) - j))]

RECURSIVE applyPart(_, _, _, _)

\* lines[j] once index holds its length too
applyLine(lines, strippedPart, j, index) ==
    IF index + j >= strippedPart.from
    THEN IF strippedPart.to - (index - Len(lines[j + 1])) - j <= index
         THEN taggedLine(lines, strippedPart, j, index)
         ELSE applyPart(taggedLine(lines, strippedPart, j, index), strippedPart,
                        j + 1, index)
    ELSE applyPart(lines, strippedPart, j + 1, index)

\* for (let j = 0; j < lines.length; j++), index += lines[j].length
applyPart(lines, strippedPart, j, index) ==
    IF ~(j < Len(lines)) THEN lines
    ELSE applyLine(lines, strippedPart, j, index + Len(lines[j + 1]))

\* the parts first to last instead of last to first
RECURSIVE applyXMLForward(_, _, _)
applyXMLForward(lines, strippedParts, i) ==
    IF ~(i >= 0) THEN lines
    ELSE applyXMLForward(applyPart(lines, strippedParts[Len(strippedParts) - i], 0, 0),
                         strippedParts, i - 1)
\* for (let i = strippedParts.length - 1; i >= 0; i--)
RECURSIVE applyXML(_, _, _)
applyXML(lines, strippedParts, i) ==
    IF ~(i >= 0) THEN lines
    ELSE applyXML(applyPart(lines, strippedParts[i + 1], 0, 0), strippedParts, i - 1)

MaxPieces == 5

\* the pieces a text is made of: characters, an opening tag, a closing tag,
\* a tag that closes itself
OpenTag == <<"<", "b", ">">>
CloseTag == <<"<", "/", "b", ">">>
SelfClosing == <<"<", "b", "r", "/", ">">>
Pieces == {<<"a">>, <<"x">>, OpenTag, CloseTag, SelfClosing}
Texts == UNION {[1..n -> Pieces] : n \in 0..MaxPieces}

RECURSIVE Flat(_)
Flat(pieces) == IF pieces = <<>> THEN <<>> ELSE Head(pieces) \o Flat(Tail(pieces))

\* the text is stripped and the parts are applied to its one line
applied(pieces, text, stripped) ==
    /\ xml' = [called |-> TRUE, pieces |-> pieces, text |-> text,
               stripped |-> stripped,
               applied |-> applyXML(<<stripped.newText>>, stripped.strippedParts,
                                    Len(stripped.strippedParts) - 1)]
    /\ UNCHANGED <<pageRenderer, pages, rr, multipliedCards, fieldKey, reader>>
    /\ UNCHANGED <<_data, _sources, _overrides, _loaded, _loadedListeners, _dirname,
                   each, pending, ticks, fired, loadCb, thrown, log, errs, pc, calls,
                   regs, got>>

stripAndApply(pieces) == applied(pieces, Flat(pieces), stripXML(Flat(pieces)))

\* one text is followed
NextXml == ~xml.called /\ \E pieces \in Texts : stripAndApply(pieces)

SpecXml == Init /\ [][NextXml]_vars

\* ------------------------------------------------------------------------
\* C37
\* ------------------------------------------------------------------------
\* the tags of the text come in pairs, an opening tag and later its closing
\* tag, with no tag between the two
RECURSIVE Paired(_, _)
Paired(pieces, open) ==
    IF pieces = <<>> THEN ~open
    ELSE IF Head(pieces) = OpenTag THEN ~open /\ Paired(Tail(pieces), TRUE)
    ELSE IF Head(pieces) = CloseTag THEN open /\ Paired(Tail(pieces), FALSE)
    ELSE IF Head(pieces) = SelfClosing THEN FALSE
    ELSE Paired(Tail(pieces), open)

\* C37: for every text whose tags form balanced, non-nested open/close pairs,
\* applyXML applied to the single line stripXML(text).newText with
\* stripXML(text).strippedParts returns the original text.
C37_RoundTrip ==
    (xml.called /\ Paired(xml.pieces, FALSE)) => xml.applied = <<xml.text>>

\* a text of two pairs, the second around a character
C37_Witness ==
    /\ xml.called
    /\ Paired(xml.pieces, FALSE)
    /\ Len(xml.stripped.strippedParts) = 2
    /\ xml.stripped.newText # <<>>
    /\ xml.applied = <<xml.text>>

\* ------------------------------------------------------------------------
\* CcsbReader on its own: a reader is constructed, given paths, loaded and
\* read from.  zip is the bundle held ("" while this.zip is undefined); a
\* load is known by the path it read and how far it got; a readFile call by
\* the path asked for, the bundle held when it was made, whether a load had
\* called back without error by then, and what its callback was given.
\* ------------------------------------------------------------------------
MaxLoads == 2
MaxReads == 2

\* the paths a reader is given: none, a bundle without the fonts JSON, a file
\* that is no zip archive, a file that does not exist
ReaderPaths == {"", "nofonts.ccsb", "broken.ccsb", "gone.ccsb"}
\* the entries asked for: none, one of every bundle, one of a new bundle only
EntryPaths == {"", CONFIG_PATH, JSON_PATH}

NoZip == ""
\* new JSZip() with the four files written by load
NewZip == "new"
ZipEntries(zip) ==
    IF zip = NoZip THEN {}
    ELSE IF zip = NewZip THEN {DATA_PATH, CONFIG_PATH, TEMPLATE_PATH, JSON_PATH}
    ELSE EntriesOf(zip)

\* this.zip.file(path) !== null
containsFile(zip, path) == path \in ZipEntries(zip)

\* constructor(path)
CcsbReader(path) ==
    /\ ~reader.constructed
    /\ reader' = [constructed |-> TRUE, path |-> path, zip |-> NoZip,
                  loads |-> <<>>, reads |-> <<>>]
    /\ UNCHANGED <<pageRenderer, pages, rr, multipliedCards, fieldKey, xml>>
    /\ UNCHANGED <<_data, _sources, _overrides, _loaded, _loadedListeners, _dirname,
                   each, pending, ticks, fired, loadCb, thrown, log, errs, pc, calls,
                   regs, got>>

ReaderBecomes(r) ==
    /\ reader.constructed
    /\ reader' = r
    /\ UNCHANGED <<pageRenderer, pages, rr, multipliedCards, fieldKey, xml>>
    /\ UNCHANGED <<_data, _sources, _overrides, _loaded, _loadedListeners, _dirname,
                   each, pending, ticks, fired, loadCb, thrown, log, errs, pc, calls,
                   regs, got>>

\* setPath(path)
setPath(path) == ReaderBecomes([reader EXCEPT !.path = path])

\* a variant of load that holds the bundle before it was read
loadCalledEarly(r) ==
    [r EXCEPT !.zip = r.path,
              !.loads = Append(@, [path |-> r.path, stage |-> "reading"])]
\* load(next): a new file is made and next(null) called, or the waterfall
\* begins with fs.readFile(this.path)
loadCalled(r) ==
    IF r.path = ""
    THEN [r EXCEPT !.zip = NewZip,
                   !.loads = Append(@, [path |-> r.path, stage |-> "ok"])]
    ELSE [r EXCEPT !.loads = Append(@, [path |-> r.path, stage |-> "reading"])]

Reader_load ==
    /\ Len(reader.loads) < MaxLoads
    /\ ReaderBecomes(loadCalled(reader))

\* fs.readFile calls back: with the bytes, which go to JSZip.loadAsync, or
\* with an error, and next(new TypeError(...)) is called
Reader_fsRead(i) ==
    /\ reader.loads[i].stage = "reading"
    /\ ReaderBecomes([reader EXCEPT !.loads[i].stage =
                        IF reader.loads[i].path \in Bundles THEN "unzipping"
                        ELSE "failed"])

\* the promise of JSZip.loadAsync settles: this.zip = zip and next(null), or
\* next(new TypeError(...))
Reader_loadAsync(i) ==
    /\ reader.loads[i].stage = "unzipping"
    /\ ReaderBecomes(IF IsZip(reader.loads[i].path)
                     THEN [reader EXCEPT !.zip = reader.loads[i].path,
                                         !.loads[i].stage = "ok"]
                     ELSE [reader EXCEPT !.loads[i].stage = "failed"])

\* what readFile does before it returns: next(err) for no path, for no zip
\* and for the error thrown in asyncify, or file.async("nodebuffer")
readFileCalled(zip, path) ==
    IF path = "" THEN [out |-> "error", err |-> Err("SourceFileMissing", <<path>>)]
    ELSE IF zip = NoZip THEN [out |-> "error", err |-> Err("MustCallLoad", <<>>)]
    ELSE IF ~containsFile(zip, path)
    THEN [out |-> "error", err |-> Err("CannotFindFile", <<path>>)]
    ELSE [out |-> "pending", err |-> NoErr]

\* a load has called back without an error
HasLoaded(r) == \E k \in 1..Len(r.loads) : r.loads[k].stage = "ok"

ReadCall(r, path, called) ==
    [path |-> path, zip |-> r.zip, loaded |-> HasLoaded(r), out |-> called.out,
     err |-> called.err, bytes |-> <<>>]

\* readFile(path, next)
Reader_readFile(path) ==
    /\ Len(reader.reads) < MaxReads
    /\ ReaderBecomes([reader EXCEPT !.reads =
            Append(@, ReadCall(reader, path, readFileCalled(reader.zip, path)))])

\* the promise of file.async("nodebuffer") settles: next(null, bytes)
Reader_fileAsync(i) ==
    /\ reader.reads[i].out = "pending"
    /\ ReaderBecomes([reader EXCEPT !.reads[i].out = "bytes",
                         !.reads[i].bytes = <<reader.reads[i].zip, reader.reads[i].path>>])

NextCcsb ==
    \/ \E path \in ReaderPaths : CcsbReader(path)
    \/ \E path \in ReaderPaths : setPath(path)
    \/ Reader_load
    \/ \E i \in 1..MaxLoads : i <= Len(reader.loads) /\ Reader_fsRead(i)
    \/ \E i \in 1..MaxLoads : i <= Len(reader.loads) /\ Reader_loadAsync(i)
    \/ \E path \in EntryPaths : Reader_readFile(path)
    \/ \E i \in 1..MaxReads : i <= Len(reader.reads) /\ Reader_fileAsync(i)

SpecCcsb == Init /\ [][NextCcsb]_vars

\* ------------------------------------------------------------------------
\* C34
\* ------------------------------------------------------------------------
\* the readFile calls so far
ReadCalls == IF reader.constructed THEN reader.reads ELSE <<>>

\* C34: readFile delivers bytes only after a load has completed successfully
\* and only for an entry present in the bundle held, and the bytes are that
\* entry's; called before any load has completed successfully, with an empty
\* path, or for an absent entry, its callback is given an error and no bytes.
C34_BytesOnlyWhenLoaded ==
    \A i \in 1..Len(ReadCalls) :
        /\ ReadCalls[i].out = "bytes" =>
              /\ ReadCalls[i].loaded
              /\ ReadCalls[i].path \in ZipEntries(ReadCalls[i].zip)
              /\ ReadCalls[i].bytes = <<ReadCalls[i].zip, ReadCalls[i].path>>
        /\ (\/ ~ReadCalls[i].loaded
            \/ ReadCalls[i].path = ""
            \/ ReadCalls[i].path \notin ZipEntries(ReadCalls[i].zip)) =>
              /\ ReadCalls[i].out = "error"
              /\ ReadCalls[i].err # NoErr
              /\ ReadCalls[i].bytes = <<>>

\* a call made while the load was in flight got an error, a later one for an
\* entry of the bundle got its bytes
C34_Witness ==
    /\ Len(ReadCalls) = 2
    /\ ~ReadCalls[1].loaded /\ ReadCalls[1].path = CONFIG_PATH
    /\ ReadCalls[1].out = "error"
    /\ ReadCalls[2].loaded /\ ReadCalls[2].zip = "nofonts.ccsb"
    /\ ReadCalls[2].out = "bytes"

\* ------------------------------------------------------------------------
\* C35
\* ------------------------------------------------------------------------
\* C35: in ReadAndRender.load the template build step (renderer.build, the
\* task rendererBuild) runs only after the renderer's own load has completed
\* (the task renderer has called back), in every interleaving of the config
\* read, the option resolution and the renderer load callbacks.
C35_BuildAfterLoad ==
    "rendererBuild" \in rr.started => "renderer" \in rr.done

\* ------------------------------------------------------------------------
\* C36
\* ------------------------------------------------------------------------
\* the _renderOne call that failed its assertion, if one did
AssertionFailed == pages.err = Err("AssertionError", <<>>)

\* C36: every PageRenderer whose constructor returned without error holds
\* exactly capacity placeholders (vCap rows of hCap cells), and the assertion
\* cards.length <= capacity of _renderOne holds on every call made by render
\* and renderConcatenated, for fronts and backs and for every card list.
C36_CapacityPlaceholders ==
    pageRenderer.made =>
        /\ Len(pageRenderer._placeholders) = pageRenderer._capacity
        /\ pageRenderer._capacity
              = vCap(pageRenderer.viewport) * hCap(pageRenderer.viewport)
        /\ ~AssertionFailed

\* ------------------------------------------------------------------------
\* C33
\* ------------------------------------------------------------------------
\* the terminal fields whose processing gave the leaf that the tree holds
ResolvedLeaves ==
    {e \in log : e.r.err = NoErr /\ e.path \in DOMAIN _data
                    /\ _data[e.path].kind # "obj"}

HasDims(node) == node.dims # <<>>
HasWrappr(node) == node.wrappr # <<>>
Declares(e, property) == property \in e.field.properties
Numeric(e) == Declares(e, "uint") \/ Declares(e, "number")

\* C33 as claimed: every resolved leaf carries image dimensions (dims) if and
\* only if its key declared img, and a font shaping handle (wrappr) if and
\* only if its key declared font, for every combination of declared
\* properties and in both load and loadSync.
C33_DimsIffImg ==
    \A e \in ResolvedLeaves :
        /\ HasDims(_data[e.path]) <=> Declares(e, "img")
        /\ HasWrappr(_data[e.path]) <=> Declares(e, "font")

\* C33 as amended: a leaf whose key declares uint or number is a number and
\* carries neither dims nor wrappr, whatever else its key declares; every
\* other resolved leaf carries dims if and only if its key declared img and
\* wrappr if and only if its key declared font, in load and in loadSync.
C33_DimsIffImgUnlessNumeric ==
    \A e \in ResolvedLeaves :
        IF Numeric(e)
        THEN /\ _data[e.path].kind = "number"
             /\ ~HasDims(_data[e.path]) /\ ~HasWrappr(_data[e.path])
        ELSE /\ HasDims(_data[e.path]) <=> Declares(e, "img")
             /\ HasWrappr(_data[e.path]) <=> Declares(e, "font")

\* a concurrent pass that ended well, with a leaf of an image and a path, a
\* leaf of a font and a path, a leaf of a path alone, and a number whose key
\* declared img too
C33_Witness ==
    /\ pc = "load" /\ loadCb = <<NoErr>>
    /\ \E e \in ResolvedLeaves :
          e.field.properties = {"img", "path"} /\ HasDims(_data[e.path])
    /\ \E e \in ResolvedLeaves :
          e.field.properties = {"font", "path"} /\ HasWrappr(_data[e.path])
    /\ \E e \in ResolvedLeaves :
          e.field.properties = {"path"} /\ ~HasDims(_data[e.path])
    /\ \E e \in ResolvedLeaves :
          e.field.properties = {"uint", "img"} /\ _data[e.path].kind = "number"

\* ------------------------------------------------------------------------
\* C31
\* ------------------------------------------------------------------------
\* The branches of async.each that have dest[fieldName] of path p to write:
\* the field resolutions waiting in the nextTick queue or for their file,
\* those that have called back, and the nested recursion of consume at p.
QueuedAt(p) == {i \in 1..Len(ticks) : ticks[i].k = "field" /\ ticks[i].path = p}
ReadingAt(p) == {task \in pending : task.path = p}
ResolvedAt(p) == {e \in log : e.path = p}
RecursionsAt(p) == IF p # <<>> /\ p \in DOMAIN each THEN 1 ELSE 0
Branches(p) ==
    Cardinality(QueuedAt(p)) + Cardinality(ReadingAt(p))
        + Cardinality(ResolvedAt(p)) + RecursionsAt(p)

BranchPaths ==
    DOMAIN _data \cup DOMAIN each \cup {task.path : task \in pending}
        \cup {e.path : e \in log} \cup {ticks[i].path : i \in 1..Len(ticks)}

\* C31: during one concurrent load no two field resolutions or nested
\* recursions have the same field of the same destination object to assign,
\* and once the pass has ended well every node of the tree was written by
\* exactly one branch.
C31_OneWriter ==
    pc = "load" =>
        /\ \A p \in BranchPaths : Branches(p) <= 1
        /\ loadCb = <<NoErr>> => \A p \in DOMAIN _data : Branches(p) = 1

\* a pass over two sources that reached a nested level, with two fields of
\* one nested level still in flight
C31_Witness ==
    /\ pc = "load"
    /\ Len(_sources) = 2
    /\ \E p \in DOMAIN each : Len(p) = 2
    /\ \E p, q \in BranchPaths :
          /\ p # q /\ Len(p) = Len(q) /\ Len(p) >= 2
          /\ Cardinality(QueuedAt(p)) + Cardinality(ReadingAt(p)) = 1
          /\ Cardinality(QueuedAt(q)) + Cardinality(ReadingAt(q)) = 1

====
